---- MODULE Spec2Model ----
(***************************************************************************)
(* Bilateral phase-timing analysis scripts of mlehaptics:                  *)
(*   scripts/analyze_bilateral_phase.py          (script "phase")           *)
(*   scripts/analyze_bilateral_phase_detailed.py (script "detailed")        *)
(*   scripts/analyze_bilateral_timing_fixed.py   (script "fixed")           *)
(* The model follows main() of each script: the two logs are parsed         *)
(* (ParseLogs), the empty check (EmptyCheck), the two-pointer pairing loop  *)
(* with one action per iteration (Iterate, IterateFixed) and the statistics *)
(* summary (Summarize).  Spec starts main() from activation lists the       *)
(* extractors can return, SpecParse from the lines of the two log files.    *)
(* find_last_known_metric is an operator; SpecLookup calls it on its own.   *)
(* SpecRerun runs main() a second time on the same inputs (Rerun).         *)
(* scripts/parse_serial_log.py is modelled by CompressLine and             *)
(* DecompressLine on one log line (SpecCodec).                             *)
(***************************************************************************)
EXTENDS Integers, Sequences, FiniteSets, TLC

VARIABLES
    script,            \* which script's main() is running
    pc,                \* position in main(): "check", "loop", "done", "exit1"
    server_acts,       \* list of (timestamp_ms, cycle_ms) of the SERVER log
    client_acts,       \* list of (timestamp_ms, cycle_ms) of the CLIENT log
    rssi_by_time,      \* dict timestamp -> RSSI        (detailed only)
    rtt_by_time,       \* dict timestamp -> RTT in ms/1000 (detailed only)
    quality_by_time,   \* dict timestamp -> quality     (detailed only)
    server_idx,
    client_idx,
    all_phase_errors,  \* list of phase_error_ms, one per iteration
    phase_with_metrics,\* list of (phase_error, rssi, rtt, quality)
    good_count,
    warning_count,
    overlap_count,
    drift_count,
    printed,           \* the rows of the table printed by the loop
    summary,           \* the statistics printed after the loop
    server_lines,      \* the lines of the SERVER log file
    client_lines,      \* the lines of the CLIENT log file
    metric_by_time,    \* dict handed to find_last_known_metric
    timestamp_ms,      \* timestamp handed to find_last_known_metric
    found,             \* what find_last_known_metric returned
    called,            \* whether find_last_known_metric has returned
    first_run,         \* what an earlier run of main() on these inputs printed
    log_line,          \* the log line handed to compress_line
    base_timestamp_ms, \* the base timestamp of parse_serial_log.py
    compressed_line,   \* what compress_line returned
    decompressed       \* what decompress_line returned

vars == <<script, pc, server_acts, client_acts, rssi_by_time, rtt_by_time,
          quality_by_time, server_idx, client_idx, all_phase_errors,
          phase_with_metrics, good_count, warning_count, overlap_count,
          drift_count, printed, summary, server_lines, client_lines,
          metric_by_time, timestamp_ms, found, called, first_run, log_line,
          base_timestamp_ms, compressed_line, decompressed>>

mainVars == <<script, pc, server_acts, client_acts, rssi_by_time, rtt_by_time,
              quality_by_time, server_idx, client_idx, all_phase_errors,
              phase_with_metrics, good_count, warning_count, overlap_count,
              drift_count, printed, summary>>
parseVars == <<server_lines, client_lines>>
lookupVars == <<metric_by_time, timestamp_ms, found, called>>
rerunVars == <<first_run>>
codecVars == <<log_line, base_timestamp_ms, compressed_line, decompressed>>

----------------------------------------------------------------------------
(* Bounds of the model *)

MaxLeaderLen == 3
MaxFollowerLen == 2

(* An optional value: Python's None, or a value v as Some(v) *)
None == <<>>
Some(v) == <<v>>

(* An empty dict *)
EmptyDict == [t \in {} |-> 0]

SeqsUpTo(S, n) == UNION {[1..k -> S] : k \in 0..n}

(* Activation events the extractors can produce: timestamp >= 0, period > 0 *)
LeaderEvents == {<<0, 2000>>, <<2000, 2000>>, <<4000, 2000>>, <<0, 2001>>}
FollowerEvents == {<<1000, 500>>, <<1005, 2000>>, <<2000, 2000>>,
                   <<3050, 2000>>}

(* Metric dicts of the CLIENT log offered to the detailed script; an RTT is
   held in thousandths of a millisecond *)
MetricDicts ==
    { [rssi |-> EmptyDict, rtt |-> EmptyDict, quality |-> EmptyDict],
      [rssi |-> (0 :> -95 @@ 1005 :> -60), rtt |-> (1000 :> 120000),
       quality |-> (3050 :> 40)] }

----------------------------------------------------------------------------
(* Python helpers *)

Abs(x) == IF x < 0 THEN -x ELSE x

(* tuple comparison of (timestamp, period), as sorted() orders them *)
TupleLess(a, b) == a[1] < b[1] \/ (a[1] = b[1] /\ a[2] < b[2])

(* a list that sorted(list(set)) can return *)
IsSortedSet(s) == \A i, j \in 1..Len(s) : i < j => TupleLess(s[i], s[j])

(* sorted(d.keys()) *)
RECURSIVE SortedKeys(_)
SortedKeys(K) ==
    IF K = {} THEN <<>>
    ELSE LET m == CHOOSE x \in K : \A y \in K : x <= y
         IN  <<m>> \o SortedKeys(K \ {m})

(* the for loop with the comparison "ts < timestamp_ms" *)
RECURSIVE ScanKeysStrict(_, _, _, _)
ScanKeysStrict(keys, i, ts, last_metric_ts) ==
    IF i > Len(keys) THEN last_metric_ts
    ELSE IF keys[i] < ts THEN ScanKeysStrict(keys, i + 1, ts, Some(keys[i]))
    ELSE last_metric_ts

(* the for loop of find_last_known_metric: last_metric_ts after scanning
   keys[i..] with break at the first key above the timestamp *)
RECURSIVE ScanKeys(_, _, _, _)
ScanKeys(keys, i, ts, last_metric_ts) ==
    IF i > Len(keys) THEN last_metric_ts
    ELSE IF keys[i] <= ts THEN ScanKeys(keys, i + 1, ts, Some(keys[i]))
    ELSE last_metric_ts

(* the timestamp find_last_known_metric settles on (None when there is none) *)
LastMetricTs(ts, d) ==
    IF DOMAIN d = {} THEN None
    ELSE ScanKeys(SortedKeys(DOMAIN d), 1, ts, None)

find_last_known_metric(ts, d) ==
    IF DOMAIN d = {} THEN None
    ELSE LET last_metric_ts == LastMetricTs(ts, d)
         IN  IF last_metric_ts # None THEN Some(d[last_metric_ts[1]]) ELSE None

----------------------------------------------------------------------------
(* The pairing loop of analyze_bilateral_phase.py and                      *)
(* analyze_bilateral_phase_detailed.py                                      *)

(* the target taken from the CLIENT event's period *)
TargetFromClientPeriod(server_ev, client_ev) ==
    server_ev[1] + (client_ev[2] \div 2)

(* target_client_ts = server_ts + (server_period // 2) *)
TargetClientTs(server_ev, client_ev) == server_ev[1] + (server_ev[2] \div 2)

(* phase_error_ms = client_ts - target_client_ts *)
PhaseError(server_ev, client_ev) ==
    client_ev[1] - TargetClientTs(server_ev, client_ev)

(* the status chain with a last branch that no counter counts *)
StatusPhaseUncounted(phase_error_ms) ==
    IF Abs(phase_error_ms) <= 10 THEN "GOOD"
    ELSE IF Abs(phase_error_ms) <= 50 THEN "WARNING"
    ELSE IF phase_error_ms < 0 THEN "OVERLAP"
    ELSE "LATE"

(* the status chain of analyze_bilateral_phase.py *)
StatusPhase(phase_error_ms) ==
    IF Abs(phase_error_ms) <= 10 THEN "GOOD"
    ELSE IF Abs(phase_error_ms) <= 50 THEN "WARNING"
    ELSE IF phase_error_ms < 0 THEN "OVERLAP"
    ELSE "DRIFT"

(* the status chain with the WARNING bound taken exclusively *)
StatusWarningExclusive(phase_error_ms) ==
    IF Abs(phase_error_ms) <= 10 THEN "GOOD"
    ELSE IF Abs(phase_error_ms) < 50 THEN "WARNING"
    ELSE IF phase_error_ms < 0 THEN "OVERLAP"
    ELSE "DRIFT"

(* the status chain of analyze_bilateral_phase_detailed.py *)
StatusDetailed(phase_error_ms) ==
    IF Abs(phase_error_ms) <= 10 THEN "GOOD"
    ELSE IF Abs(phase_error_ms) <= 50 THEN "WARNING"
    ELSE IF phase_error_ms < 0 THEN "OVERLAP"
    ELSE "DRIFT"

(* the status chain of analyze_bilateral_timing_fixed.py *)
StatusFixed(error_ms) ==
    IF Abs(error_ms) <= 10 THEN "GOOD"
    ELSE IF Abs(error_ms) <= 50 THEN "WARNING"
    ELSE (IF error_ms < 0 THEN "OVERLAP" ELSE "DRIFT")

(* Advance with the two thresholds taken inclusively *)
AdvanceInclusive(phase_error_ms, server_period) ==
    IF phase_error_ms <= -(server_period \div 2) THEN <<0, 1>>
    ELSE IF phase_error_ms >= (server_period \div 2) THEN <<1, 0>>
    ELSE <<1, 1>>

(* "Move to next pair": the increments <<of server_idx, of client_idx>> *)
Advance(phase_error_ms, server_period) ==
    IF phase_error_ms < -(server_period \div 2) THEN <<0, 1>>
    ELSE IF phase_error_ms > (server_period \div 2) THEN <<1, 0>>
    ELSE <<1, 1>>

(* the while condition that stops one activation before the end *)
InRangeBeforeLast ==
    server_idx + 1 < Len(server_acts) /\ client_idx + 1 < Len(client_acts)

(* the while condition with the lengths themselves allowed *)
InRangeOffByOne ==
    server_idx <= Len(server_acts) /\ client_idx <= Len(client_acts)

(* the while condition of the pairing loops *)
InRange == server_idx < Len(server_acts) /\ client_idx < Len(client_acts)

(* server_acts[server_idx] and client_acts[client_idx] exist; reading a list
   at an index that is not below its length raises IndexError *)
Readable == server_idx < Len(server_acts) /\ client_idx < Len(client_acts)

(* the names main() starts with, before the loop *)
MainNames ==
    /\ server_idx = 0
    /\ client_idx = 0
    /\ all_phase_errors = <<>>
    /\ phase_with_metrics = <<>>
    /\ good_count = 0
    /\ warning_count = 0
    /\ overlap_count = 0
    /\ drift_count = 0
    /\ printed = <<>>
    /\ summary = None

(* main() with both logs parsed *)
MainStart == pc = "check" /\ MainNames

(* no extractor and no lookup is running *)
ParseIdle == server_lines = <<>> /\ client_lines = <<>>
LookupIdle ==
    metric_by_time = EmptyDict /\ timestamp_ms = 0 /\ found = None
    /\ called = FALSE

(* no earlier run of main() is remembered, and parse_serial_log.py is not
   running *)
RerunIdle == first_run = None
CodecIdle ==
    log_line = None /\ base_timestamp_ms = None /\ compressed_line = None
    /\ decompressed = None

(* the activation lists and metric dicts main() can hold after extraction *)
InputsOf(sc, sa, ca, md) ==
    /\ script = sc
    /\ server_acts = sa
    /\ client_acts = ca
    /\ rssi_by_time = md.rssi
    /\ rtt_by_time = md.rtt
    /\ quality_by_time = md.quality

NoMetrics == [rssi |-> EmptyDict, rtt |-> EmptyDict, quality |-> EmptyDict]

Init ==
    /\ \E sa \in SeqsUpTo(LeaderEvents, MaxLeaderLen),
          ca \in SeqsUpTo(FollowerEvents, MaxFollowerLen) :
          \/ InputsOf("phase", sa, ca, NoMetrics)
          \/ \E md \in MetricDicts : InputsOf("detailed", sa, ca, md)
          \/ IsSortedSet(sa) /\ IsSortedSet(ca)
             /\ InputsOf("fixed", sa, ca, NoMetrics)
    /\ MainStart
    /\ ParseIdle
    /\ LookupIdle
    /\ RerunIdle
    /\ CodecIdle

(* The two scenarios of the pairing contract, with every shorter or
   reordered list over their events *)
ScenarioLeaderEvents == {<<0, 2000>>}
ScenarioFollowerEvents == {<<-1200, 2000>>, <<1000, 2000>>}

InitScenario ==
    /\ \E sa \in SeqsUpTo(ScenarioLeaderEvents, MaxLeaderLen),
          ca \in SeqsUpTo(ScenarioFollowerEvents, MaxFollowerLen) :
          \/ InputsOf("phase", sa, ca, NoMetrics)
          \/ \E md \in MetricDicts : InputsOf("detailed", sa, ca, md)
          \/ IsSortedSet(sa) /\ IsSortedSet(ca)
             /\ InputsOf("fixed", sa, ca, NoMetrics)
    /\ MainStart
    /\ ParseIdle
    /\ LookupIdle
    /\ RerunIdle
    /\ CodecIdle

(* One SERVER activation and one CLIENT activation whose phase error runs
   over -MaxErr..MaxErr *)
MaxErr == 60

InitClassify ==
    /\ \E sc \in {"phase", "detailed", "fixed"}, e \in -MaxErr..MaxErr :
          InputsOf(sc, << <<0, 2000>> >>, << <<1000 + e, 2000>> >>, NoMetrics)
    /\ MainStart
    /\ ParseIdle
    /\ LookupIdle
    /\ RerunIdle
    /\ CodecIdle

(* the check with "and" in the place of "or" *)
EmptyCheckBoth ==
    /\ pc = "check"
    /\ pc' = IF server_acts = <<>> /\ client_acts = <<>> THEN "exit1" ELSE "loop"
    /\ UNCHANGED <<script, server_acts, client_acts, rssi_by_time, rtt_by_time,
                   quality_by_time, server_idx, client_idx, all_phase_errors,
                   phase_with_metrics, good_count, warning_count,
                   overlap_count, drift_count, printed, summary>>
    /\ UNCHANGED <<parseVars, lookupVars, rerunVars, codecVars>>

(* "if not server_acts or not client_acts: ... sys.exit(1)" *)
EmptyCheck ==
    /\ pc = "check"
    /\ pc' = IF server_acts = <<>> \/ client_acts = <<>> THEN "exit1" ELSE "loop"
    /\ UNCHANGED <<script, server_acts, client_acts, rssi_by_time, rtt_by_time,
                   quality_by_time, server_idx, client_idx, all_phase_errors,
                   phase_with_metrics, good_count, warning_count,
                   overlap_count, drift_count, printed, summary>>
    /\ UNCHANGED <<parseVars, lookupVars, rerunVars, codecVars>>

(* IndexError raised by the loop body ends the run with a traceback *)
RaiseIndexError ==
    /\ pc' = "raised"
    /\ UNCHANGED <<script, server_acts, client_acts, rssi_by_time, rtt_by_time,
                   quality_by_time, server_idx, client_idx, all_phase_errors,
                   phase_with_metrics, good_count, warning_count,
                   overlap_count, drift_count, printed, summary>>
    /\ UNCHANGED <<parseVars, lookupVars, rerunVars, codecVars>>

(* one iteration of the while loop of the phase and detailed scripts *)
Iterate ==
    /\ pc = "loop"
    /\ script \in {"phase", "detailed"}
    /\ InRange
    /\ IF ~Readable THEN RaiseIndexError ELSE
       LET server_ev == server_acts[server_idx + 1]
           client_ev == client_acts[client_idx + 1]
           server_ts == server_ev[1]
           server_period == server_ev[2]
           client_ts == client_ev[1]
           target_client_ts == TargetClientTs(server_ev, client_ev)
           phase_error_ms == PhaseError(server_ev, client_ev)
           detailed == script = "detailed"
           rssi == IF detailed THEN find_last_known_metric(client_ts, rssi_by_time)
                   ELSE None
           rtt == IF detailed THEN find_last_known_metric(client_ts, rtt_by_time)
                  ELSE None
           quality == IF detailed
                      THEN find_last_known_metric(client_ts, quality_by_time)
                      ELSE None
           status == IF detailed THEN StatusDetailed(phase_error_ms)
                     ELSE StatusPhase(phase_error_ms)
           step == Advance(phase_error_ms, server_period)
       IN  /\ phase_with_metrics' =
                  IF detailed /\ (rssi # None \/ rtt # None \/ quality # None)
                  THEN Append(phase_with_metrics,
                              <<phase_error_ms, rssi, rtt, quality>>)
                  ELSE phase_with_metrics
           /\ good_count' = good_count + (IF status = "GOOD" THEN 1 ELSE 0)
           /\ warning_count' =
                  warning_count + (IF status = "WARNING" THEN 1 ELSE 0)
           /\ overlap_count' =
                  overlap_count + (IF status = "OVERLAP" THEN 1 ELSE 0)
           /\ drift_count' = drift_count + (IF status = "DRIFT" THEN 1 ELSE 0)
           /\ all_phase_errors' = Append(all_phase_errors, phase_error_ms)
           /\ printed' = Append(printed,
                  [server_idx |-> server_idx, client_idx |-> client_idx,
                   server_ts |-> server_ts, server_period |-> server_period,
                   client_rel_ms |-> client_ts - server_ts,
                   target_rel_ms |-> server_period \div 2,
                   target_client_ts |-> target_client_ts,
                   phase_error_ms |-> phase_error_ms,
                   rssi |-> rssi, rtt |-> rtt, quality |-> quality,
                   status |-> status])
           /\ server_idx' = server_idx + step[1]
           /\ client_idx' = client_idx + step[2]
           /\ UNCHANGED <<script, pc, server_acts, client_acts, rssi_by_time,
                          rtt_by_time, quality_by_time, summary>>
           /\ UNCHANGED <<parseVars, lookupVars, rerunVars, codecVars>>

----------------------------------------------------------------------------
(* The pairing loop of analyze_bilateral_timing_fixed.py *)

(* target_ms = server_period // 2 if server_period else 1000 *)
TargetMsFixed(server_period) ==
    IF server_period # 0 THEN server_period \div 2 ELSE 1000

(* AdvanceFixed without the "server_idx += 1" of the else branch *)
AdvanceFixedNoServer(delta_ms, server_ev) ==
    IF delta_ms < 0 THEN <<0, 1>>
    ELSE IF client_idx < Len(client_acts) - 1
         THEN LET next_client_ts == client_acts[client_idx + 2][1]
              IN  IF next_client_ts < server_ev[1] + server_ev[2]
                  THEN <<0, 1>> ELSE <<0, 0>>
         ELSE <<0, 0>>

(* "Move to next pair" of the fixed script: <<of server_idx, of client_idx>> *)
AdvanceFixed(delta_ms, server_ev) ==
    IF delta_ms < 0 THEN <<0, 1>>
    ELSE IF client_idx < Len(client_acts) - 1
         THEN LET next_client_ts == client_acts[client_idx + 2][1]
              IN  IF next_client_ts < server_ev[1] + server_ev[2]
                  THEN <<1, 1>> ELSE <<1, 0>>
         ELSE <<1, 0>>

(* one iteration of the while loop of the fixed script (it keeps no counters) *)
IterateFixed ==
    /\ pc = "loop"
    /\ script = "fixed"
    /\ InRange
    /\ IF ~Readable THEN RaiseIndexError ELSE
       LET server_ev == server_acts[server_idx + 1]
           client_ev == client_acts[client_idx + 1]
           server_ts == server_ev[1]
           server_period == server_ev[2]
           client_ts == client_ev[1]
           delta_ms == client_ts - server_ts
           target_ms == TargetMsFixed(server_period)
           error_ms == delta_ms - target_ms
           status == StatusFixed(error_ms)
           step == AdvanceFixed(delta_ms, server_ev)
       IN  /\ printed' = Append(printed,
                  [server_idx |-> server_idx, client_idx |-> client_idx,
                   server_ts |-> server_ts, server_period |-> server_period,
                   client_rel_ms |-> delta_ms,
                   target_rel_ms |-> target_ms,
                   target_client_ts |-> server_ts + target_ms,
                   phase_error_ms |-> error_ms,
                   rssi |-> None, rtt |-> None, quality |-> None,
                   status |-> status])
           /\ server_idx' = server_idx + step[1]
           /\ client_idx' = client_idx + step[2]
           /\ UNCHANGED <<script, pc, server_acts, client_acts, rssi_by_time,
                          rtt_by_time, quality_by_time, all_phase_errors,
                          phase_with_metrics, good_count, warning_count,
                          overlap_count, drift_count, summary>>
           /\ UNCHANGED <<parseVars, lookupVars, rerunVars, codecVars>>

----------------------------------------------------------------------------
(* The statistics summary printed after the loop *)

RECURSIVE SumSeq(_)
SumSeq(s) == IF s = <<>> THEN 0 ELSE Head(s) + SumSeq(Tail(s))

MinSeq(s) == CHOOSE x \in {s[i] : i \in 1..Len(s)} :
                 \A i \in 1..Len(s) : x <= s[i]
MaxSeq(s) == CHOOSE x \in {s[i] : i \in 1..Len(s)} :
                 \A i \in 1..Len(s) : x >= s[i]

(* "Std deviation: ... if len(all_phase_errors) > 1 else 'N/A'", the value
   of statistics.stdev standing as "stdev" *)
StdevReportFromOne(errors) == IF Len(errors) > 0 THEN "stdev" ELSE "N/A"

StdevReport(errors) == IF Len(errors) > 1 THEN "stdev" ELSE "N/A"

(* A Python float (IEEE-754 binary64) m / 2^frac, m a natural number held
   in base 2^14, lowest digit first.  0.3 and 0.7 are the doubles nearest to
   3/10 and 7/10: 0x13333333333333 / 2^54 and 0x16666666666666 / 2^53 *)
Float05 == [mant |-> <<0, 0, 0, 1024>>, frac |-> 53]

Float03 == [mant |-> <<13107, 3276, 13107, 1228>>, frac |-> 54]
Float07 == [mant |-> <<9830, 6553, 9830, 1433>>, frac |-> 53]

(* 2^(k-1) for k in 1..15 *)
Pow2 == <<1, 2, 4, 8, 16, 32, 64, 128, 256, 512, 1024, 2048, 4096, 8192,
          16384>>

(* the digits of m * n + carry, for 0 < n < 2^14 (a singleton set names a
   value that is computed once) *)
RECURSIVE MulDigits(_, _, _)
MulDigits(m, n, carry) ==
    IF m = <<>> THEN <<carry>>
    ELSE CHOOSE p \in {<<t % 16384>> \o MulDigits(Tail(m), n, t \div 16384) :
                           t \in {Head(m) * n + carry}} : TRUE

(* the digits of d + carry, every digit brought below 2^14 *)
RECURSIVE CarryDigits(_, _)
CarryDigits(d, carry) ==
    IF d = <<>> THEN (IF carry = 0 THEN <<>> ELSE <<carry>>)
    ELSE CHOOSE p \in {<<t % 16384>> \o CarryDigits(Tail(d), t \div 16384) :
                           t \in {Head(d) + carry}} : TRUE

(* the number of bits of a digit, and of a number held in digits *)
BitLen(x) == Cardinality({k \in 1..15 : Pow2[k] <= x})
BitLength(d) ==
    LET used == {i \in 1..Len(d) : d[i] # 0}
    IN  IF used = {} THEN 0
        ELSE LET top == CHOOSE i \in used : \A j \in used : j <= i
             IN  14 * (top - 1) + BitLen(d[top])

(* d, whose lowest s bits are to be dropped, rounds away from zero: the
   dropped bits are more than half a unit of the last kept bit, or exactly
   half and the last kept bit is odd (ties to even) *)
RoundsUp(d, s) ==
    LET r == d[1] % Pow2[s + 1]
        odd == IF s = 14 THEN d[2] % 2 = 1
               ELSE (d[1] \div Pow2[s + 1]) % 2 = 1
    IN  r > Pow2[s] \/ (r = Pow2[s] /\ odd)

(* d with its lowest s bits cleared and a unit of the last kept bit added
   when it rounds up: the s bits are in the lowest digit *)
Rounded(d, s) ==
    CarryDigits(<<d[1] - (d[1] % Pow2[s + 1])
                       + (IF RoundsUp(d, s) THEN Pow2[s + 1] ELSE 0)>>
                    \o Tail(d), 0)

(* an exact product below 2^67 rounded to 53 significant bits *)
RoundToDouble(d) ==
    CHOOSE x \in {IF s <= 0 THEN d
                  ELSE CHOOSE y \in {Rounded(v, s) : v \in {d}} : TRUE :
                      s \in {BitLength(d) - 53}} : TRUE

(* the float product n * f of an int n and a float f, in digits over 2^frac *)
IntTimesFloat(n, f) ==
    [mant |-> CHOOSE x \in {RoundToDouble(p) :
                                p \in {MulDigits(f.mant, n, 0)}} : TRUE,
     frac |-> f.frac]

(* the digits of c * 2^frac, for an int c below 2^14 *)
ShiftedInt(c, frac) ==
    LET v == c * Pow2[(frac % 14) + 1]
    IN  [i \in 1..(frac \div 14) |-> 0] \o <<v % 16384, v \div 16384>>

DigitAt(d, i) == IF i <= Len(d) THEN d[i] ELSE 0

DigitsGreater(a, b) ==
    LET n == IF Len(a) > Len(b) THEN Len(a) ELSE Len(b)
    IN  \E i \in 1..n :
            /\ DigitAt(a, i) > DigitAt(b, i)
            /\ \A j \in (i + 1)..n : DigitAt(a, j) = DigitAt(b, j)

(* the comparison c > x of an int c and a float x, which Python makes exactly *)
IntGreaterThanFloat(c, x) ==
    \E a \in {ShiftedInt(c, x.frac)}, b \in {x.mant} : DigitsGreater(a, b)

(* "len(outliers) > len(poor_metrics) * fraction" *)
ExceedsFraction(count, total, fraction) ==
    \E c \in {count}, n \in {total} :
        \E x \in {IntTimesFloat(n, fraction)} : IntGreaterThanFloat(c, x)

(* a list comprehension "[x for x in s if ...]": the elements of s at the
   indices keep from i on, in the order of s *)
RECURSIVE Comprehension(_, _, _)
Comprehension(s, keep, i) ==
    IF i > Len(s) THEN <<>>
    ELSE IF i \in keep THEN <<s[i]>> \o Comprehension(s, keep, i + 1)
    ELSE Comprehension(s, keep, i + 1)

(* [v for ... in metrics] of column c with None taken as 0 *)
ValuesNoneAsZero(metrics, c) ==
    [k \in 1..Len(metrics) |->
        IF metrics[k][c] # None THEN metrics[k][c][1] ELSE 0]

(* [v for ... in metrics if v is not None] of column c of the tuples
   (phase_error, rssi, rtt, quality) *)
PresentValues(metrics, c) ==
    CHOOSE vals \in
        {[k \in 1..Len(present) |-> present[k][c][1]] :
            present \in {Comprehension(metrics,
                {k \in 1..Len(metrics) : metrics[k][c] # None}, 1)}} : TRUE

(* one line of print_metric_stats: mean (as sum and count), min and max of
   the values, or "No data" (None) *)
MetricLine(vals) ==
    CHOOSE line \in
        {IF v = <<>> THEN None
         ELSE Some([count |-> Len(v), sum |-> SumSeq(v),
                    min |-> MinSeq(v), max |-> MaxSeq(v)]) :
            v \in {vals}} : TRUE

(* print_metric_stats(label, metrics); None stands for "No measurements" *)
print_metric_stats(metrics) ==
    IF metrics = <<>> THEN None
    ELSE Some([measurements |-> Len(metrics),
               rssi |-> MetricLine(PresentValues(metrics, 2)),
               rtt |-> MetricLine(PresentValues(metrics, 3)),
               quality |-> MetricLine(PresentValues(metrics, 4))])

(* the outlier analysis of the POOR bucket; an RTT is in ms/1000 *)
OutlierAnalysis(poor_metrics) ==
    IF poor_metrics = <<>> THEN None
    ELSE
    LET total == Len(poor_metrics)
        Rssi(k) == poor_metrics[k][2]
        Rtt(k) == poor_metrics[k][3]
        Qual(k) == poor_metrics[k][4]
        rssi_outliers == Comprehension(poor_metrics,
            {k \in 1..total : Rssi(k) # None /\ Rssi(k)[1] < -90}, 1)
        rtt_outliers == Comprehension(poor_metrics,
            {k \in 1..total : Rtt(k) # None /\ Rtt(k)[1] > 100 * 1000}, 1)
        qual_outliers == Comprehension(poor_metrics,
            {k \in 1..total : Qual(k) # None /\ Qual(k)[1] < 50}, 1)
        no_ble_issues == Comprehension(poor_metrics,
            {k \in 1..total : /\ (Rssi(k) = None \/ Rssi(k)[1] >= -90)
                              /\ (Rtt(k) = None \/ Rtt(k)[1] <= 100 * 1000)
                              /\ (Qual(k) = None \/ Qual(k)[1] >= 50)}, 1)
    IN  Some([total |-> total,
              rssi_outliers |-> Len(rssi_outliers),
              rtt_outliers |-> Len(rtt_outliers),
              qual_outliers |-> Len(qual_outliers),
              rssi_flag |-> ExceedsFraction(Len(rssi_outliers), total, Float03),
              rtt_flag |-> ExceedsFraction(Len(rtt_outliers), total, Float03),
              qual_flag |-> ExceedsFraction(Len(qual_outliers), total, Float03),
              no_ble_issues |-> Len(no_ble_issues),
              not_ble_flag |->
                  ExceedsFraction(Len(no_ble_issues), total, Float07)])

(* "BLE Metrics Correlation Analysis": the three buckets, their statistics
   and the outlier analysis; None when phase_with_metrics is empty *)
CorrelationAnalysis(metrics) ==
    IF metrics = <<>> THEN None
    ELSE
    LET Err(k) == Abs(metrics[k][1])
    IN  CHOOSE report \in
            {Some([good_metrics |-> good_metrics,
                   warning_metrics |-> warning_metrics,
                   poor_metrics |-> poor_metrics,
                   good |-> print_metric_stats(good_metrics),
                   warning |-> print_metric_stats(warning_metrics),
                   poor |-> print_metric_stats(poor_metrics),
                   outliers |-> OutlierAnalysis(poor_metrics)]) :
                good_metrics \in {Comprehension(metrics,
                    {k \in 1..Len(metrics) : Err(k) <= 10}, 1)},
                warning_metrics \in {Comprehension(metrics,
                    {k \in 1..Len(metrics) : 10 < Err(k) /\ Err(k) <= 50}, 1)},
                poor_metrics \in {Comprehension(metrics,
                    {k \in 1..Len(metrics) : Err(k) > 50}, 1)}} : TRUE

(* f"{100.0*count/total:.1f}" in tenths of a percent: the quotient rounded
   to one decimal, a tie (which the float holds exactly when total < 2000)
   to the even digit *)
PercentTenths(count, total) ==
    LET q == (1000 * count) \div total
        r == (1000 * count) % total
    IN  IF 2 * r > total THEN q + 1
        ELSE IF 2 * r < total THEN q
        ELSE IF q % 2 = 0 THEN q ELSE q + 1

(* the loop has ended: the phase and detailed scripts print the statistics
   (statistics.mean raises on an empty list), the detailed script the
   correlation analysis after them, the fixed script only a rule *)
Summarize ==
    /\ pc = "loop"
    /\ ~InRange
    /\ IF script = "fixed"
       THEN pc' = "done" /\ summary' = summary
       ELSE IF all_phase_errors = <<>>
       THEN pc' = "raised" /\ summary' = summary
       ELSE /\ pc' = "done"
            /\ summary' = Some(
                 [total |-> Len(all_phase_errors),
                  sum |-> SumSeq(all_phase_errors),
                  stdev |-> StdevReport(all_phase_errors),
                  min |-> MinSeq(all_phase_errors),
                  max |-> MaxSeq(all_phase_errors),
                  good_x100 |-> 100 * good_count,
                  warning_x100 |-> 100 * warning_count,
                  overlap_x100 |-> 100 * overlap_count,
                  drift_x100 |-> 100 * drift_count,
                  good_pct |->
                      PercentTenths(good_count, Len(all_phase_errors)),
                  warning_pct |->
                      PercentTenths(warning_count, Len(all_phase_errors)),
                  overlap_pct |->
                      PercentTenths(overlap_count, Len(all_phase_errors)),
                  drift_pct |->
                      PercentTenths(drift_count, Len(all_phase_errors)),
                  ble |-> IF script = "detailed"
                          THEN CorrelationAnalysis(phase_with_metrics)
                          ELSE None])
    /\ UNCHANGED <<script, server_acts, client_acts, rssi_by_time, rtt_by_time,
                   quality_by_time, server_idx, client_idx, all_phase_errors,
                   phase_with_metrics, good_count, warning_count,
                   overlap_count, drift_count, printed>>
    /\ UNCHANGED <<parseVars, lookupVars, rerunVars, codecVars>>

Next == EmptyCheck \/ Iterate \/ IterateFixed \/ Summarize

Spec == Init /\ [][Next]_vars

SpecScenario == InitScenario /\ [][Next]_vars

SpecClassify == InitClassify /\ [][Next]_vars

----------------------------------------------------------------------------
(* The extractors.  A line is a sequence of tokens: a word or punctuation   *)
(* mark W(s), a run of digits D(n) with its value, or a space SP.           *)

W(s) == [s |-> s, n |-> 0]
D(n) == [s |-> "#", n |-> n]
SP == W(" ")

(* line.replace(' ', '') *)
RemoveSpaces(line) == SelectSeq(line, LAMBDA t : t # SP)

(* the literal pat ("#" standing for \d+) matches cleaned at position i *)
MatchAt(cleaned, i, pat) ==
    /\ i + Len(pat) - 1 <= Len(cleaned)
    /\ \A k \in 1..Len(pat) : cleaned[i + k - 1].s = pat[k]

(* re.search of a literal: the leftmost position it matches at, 0 if none *)
Search(cleaned, pat) ==
    LET hits == {i \in 1..Len(cleaned) :
                    cleaned[i].s = pat[1] /\ MatchAt(cleaned, i, pat)}
    IN  IF hits = {} THEN 0
        ELSE CHOOSE i \in hits : \A j \in hits : i <= j

(* r'Motorepochset:(\d+)us,cycle:(\d+)ms' *)
EpochPattern ==
    <<"Motor", "epoch", "set", ":", "#", "us", ",", "cycle", ":", "#", "ms">>
(* r'I\((\d+)\)' *)
StampPattern == <<"I", "(", "#", ")">>
(* r'I\((\d+)\)MOTOR_TASK:' and r'MOTOR_TASK:', the heads of the ACTIVE
   patterns, and 'CyclestartsACTIVE', their tail after '.*' *)
StampTaskPattern == <<"I", "(", "#", ")", "MOTOR_TASK", ":">>
TaskPattern == <<"MOTOR_TASK", ":">>
(* a tail that asks for the word end 'ACTIVE' alone *)
ActiveSuffixPattern == <<"ACTIVE">>
ActivePattern == <<"Cycle", "starts", "ACTIVE">>

(* re.search(head + '.*' + 'CyclestartsACTIVE'): the position of the
   leftmost head that some ACTIVE tail follows, 0 if none *)
SearchActive(cleaned, head) ==
    LET i == Search(cleaned, head)
    IN  IF i # 0 /\ \E j \in (i + Len(head))..Len(cleaned) :
                        MatchAt(cleaned, j, ActivePattern)
        THEN i ELSE 0

(* current_cycle_ms set by the first epoch match only *)
CycleKeepsFirst(cleaned, current_cycle_ms) ==
    LET i == Search(cleaned, EpochPattern)
    IN  IF i # 0 /\ current_cycle_ms = None THEN Some(cleaned[i + 9].n)
        ELSE current_cycle_ms

(* current_cycle_ms after the epoch match of one line *)
CycleAfter(cleaned, current_cycle_ms) ==
    LET i == Search(cleaned, EpochPattern)
    IN  IF i # 0 THEN Some(cleaned[i + 9].n) ELSE current_cycle_ms

(* "if current_cycle_ms:" is false for None and for 0 *)
Truthy(current_cycle_ms) ==
    current_cycle_ms # None /\ current_cycle_ms[1] # 0

(* the for loop of parse_log_active_only and of parse_log over lines[i..] *)
RECURSIVE ScanActiveOnly(_, _, _, _)
ScanActiveOnly(lines, i, current_cycle_ms, activations) ==
    IF i > Len(lines) THEN activations
    ELSE LET cleaned_line == RemoveSpaces(lines[i])
             cycle == CycleAfter(cleaned_line, current_cycle_ms)
             a == SearchActive(cleaned_line, StampTaskPattern)
         IN  ScanActiveOnly(lines, i + 1, cycle,
                 IF a # 0 /\ Truthy(cycle)
                 THEN Append(activations, <<cleaned_line[a + 2].n, cycle[1]>>)
                 ELSE activations)

parse_log_active_only(lines) == ScanActiveOnly(lines, 1, None, <<>>)

(* sorted(list(S)) of a set of (timestamp, cycle) tuples *)
RECURSIVE SortedTuples(_)
SortedTuples(S) ==
    IF S = {} THEN <<>>
    ELSE LET m == CHOOSE x \in S : \A y \in S : x = y \/ TupleLess(x, y)
         IN  <<m>> \o SortedTuples(S \ {m})

(* the same loop appending to a list that is returned as it is *)
parse_log_list(lines) == ScanActiveOnly(lines, 1, None, <<>>)

(* parse_log: the same loop adding to a set, then sorted *)
parse_log(lines) ==
    LET acts == ScanActiveOnly(lines, 1, None, <<>>)
    IN  SortedTuples({acts[k] : k \in 1..Len(acts)})

(* re.search(key + r'(-?\d+)') for the keys pats: the value of the leftmost
   number (signed when the pattern allows "-") that follows one of them *)
MetricAt(cleaned, pats, signed) ==
    LET NumberAt(j) ==
            \/ j <= Len(cleaned) /\ cleaned[j].s = "#"
            \/ /\ signed
               /\ j + 1 <= Len(cleaned)
               /\ cleaned[j].s = "-"
               /\ cleaned[j + 1].s = "#"
        Hit(i, pat) == MatchAt(cleaned, i, pat) /\ NumberAt(i + Len(pat))
        heads == {pat[1] : pat \in pats}
        hits == {i \in 1..Len(cleaned) :
                    cleaned[i].s \in heads /\ \E pat \in pats : Hit(i, pat)}
    IN  IF hits = {} THEN None
        ELSE LET i == CHOOSE x \in hits : \A y \in hits : x <= y
                 pat == CHOOSE q \in pats : Hit(i, q)
                 j == i + Len(pat)
             IN  IF cleaned[j].s = "#" THEN Some(cleaned[j].n)
                 ELSE Some(-cleaned[j + 1].n)

(* r'rssi[=:]\s*(-?\d+)' *)
RssiPatterns == {<<"rssi", "=">>, <<"rssi", ":">>}
(* r'(RTTmeasured:|rtt[=:])\s*(\d+)' with re.IGNORECASE *)
RttPatterns ==
    {<<r, m, ":">> : r \in {"RTT", "rtt"}, m \in {"measured", "Measured"}}
    \cup {<<r, p>> : r \in {"RTT", "rtt", "Rtt"}, p \in {"=", ":"}}
(* r'quality[=:]\s*(\d+)%?' *)
QualityPatterns == {<<"quality", "=">>, <<"quality", ":">>}

(* the threshold 1000 itself taken as microseconds *)
RttThresholdInclusive(rtt_value) ==
    IF rtt_value >= 1000 THEN rtt_value ELSE rtt_value * 1000

(* RTT above 1000 is taken as microseconds; the dict holds ms/1000 *)
RttMsX1000(rtt_value) ==
    IF rtt_value > 1000 THEN rtt_value ELSE rtt_value * 1000

(* d[k] = v *)
Store(d, k, v) == [x \in DOMAIN d \cup {k} |-> IF x = k THEN v ELSE d[x]]

(* the for loop of parse_log_with_metrics over lines[i..] *)
RECURSIVE ScanWithMetrics(_, _, _, _)
ScanWithMetrics(lines, i, current_cycle_ms, out) ==
    IF i > Len(lines) THEN out
    ELSE LET cleaned_line == RemoveSpaces(lines[i])
             t == Search(cleaned_line, StampPattern)
         IN  IF t = 0 THEN ScanWithMetrics(lines, i + 1, current_cycle_ms, out)
             ELSE
             LET ts == cleaned_line[t + 2].n
                 cycle == CycleAfter(cleaned_line, current_cycle_ms)
                 a == SearchActive(cleaned_line, TaskPattern)
                 rssi == MetricAt(cleaned_line, RssiPatterns, TRUE)
                 rtt == MetricAt(cleaned_line, RttPatterns, FALSE)
                 quality == MetricAt(cleaned_line, QualityPatterns, FALSE)
             IN  ScanWithMetrics(lines, i + 1, cycle,
                   [activations |->
                        IF a # 0 /\ Truthy(cycle)
                        THEN Append(out.activations, <<ts, cycle[1]>>)
                        ELSE out.activations,
                    rssi |-> IF rssi # None THEN Store(out.rssi, ts, rssi[1])
                             ELSE out.rssi,
                    rtt |-> IF rtt # None
                            THEN Store(out.rtt, ts, RttMsX1000(rtt[1]))
                            ELSE out.rtt,
                    quality |-> IF quality # None
                                THEN Store(out.quality, ts, quality[1])
                                ELSE out.quality])

parse_log_with_metrics(lines) ==
    ScanWithMetrics(lines, 1, None,
        [activations |-> <<>>, rssi |-> EmptyDict, rtt |-> EmptyDict,
         quality |-> EmptyDict])

----------------------------------------------------------------------------
(* main() from the two log files on *)

MaxServerLines == 3
MaxClientLines == 2

(* "I (ts) TAG:" *)
Stamp(ts, tag) == <<W("I"), SP, W("("), D(ts), W(")"), SP, W(tag), W(":")>>

(* "I (ts) MOTOR_TASK: Motor epoch set: 6072947 us, cycle: c ms" *)
EpochLine(ts, c) ==
    Stamp(ts, "MOTOR_TASK") \o
    <<SP, W("Motor"), SP, W("epoch"), SP, W("set"), W(":"), SP, D(6072947),
      SP, W("us"), W(","), SP, W("cycle"), W(":"), SP, D(c), SP, W("ms")>>

(* "I (ts) MOTOR_TASK: Cycle starts ACTIVE" *)
ActiveLine(ts) ==
    Stamp(ts, "MOTOR_TASK") \o
    <<SP, W("Cycle"), SP, W("starts"), SP, W("ACTIVE")>>

(* "I (ts) MOTOR_TASK: Cycle starts INACTIVE" *)
InactiveLine(ts) ==
    Stamp(ts, "MOTOR_TASK") \o
    <<SP, W("Cycle"), SP, W("starts"), SP, W("IN"), W("ACTIVE")>>

(* "I (ts) TIME_SYNC: Beacon processed (seq: 5, rssi: -r dBm, rtt=t, quality=q%)" *)
BeaconLine(ts, r, t, q) ==
    Stamp(ts, "TIME_SYNC") \o
    <<SP, W("Beacon"), SP, W("processed"), SP, W("("), W("seq"), W(":"), SP,
      D(5), W(","), SP, W("rssi"), W(":"), SP, W("-"), D(r), SP, W("dBm"),
      W(","), SP, W("rtt"), W("="), D(t), W(","), SP, W("quality"), W("="),
      D(q), W("%"), W(")")>>

(* a line in the wide spacing: a space after every token *)
RECURSIVE Wide(_)
Wide(line) ==
    IF line = <<>> THEN <<>>
    ELSE IF Head(line) = SP THEN <<SP>> \o Wide(Tail(line))
    ELSE <<Head(line), SP>> \o Wide(Tail(line))

ServerLines ==
    {EpochLine(100, 2000), ActiveLine(1000), ActiveLine(3000),
     InactiveLine(2000)}
ClientLines ==
    {EpochLine(100, 2000), ActiveLine(2000), Wide(ActiveLine(1000)),
     InactiveLine(3000), BeaconLine(900, 95, 81452, 40)}

InitParse ==
    /\ script \in {"phase", "detailed", "fixed"}
    /\ pc = "parse"
    /\ server_lines \in SeqsUpTo(ServerLines, MaxServerLines)
    /\ client_lines \in SeqsUpTo(ClientLines, MaxClientLines)
    /\ server_acts = <<>>
    /\ client_acts = <<>>
    /\ rssi_by_time = EmptyDict
    /\ rtt_by_time = EmptyDict
    /\ quality_by_time = EmptyDict
    /\ MainNames
    /\ LookupIdle
    /\ RerunIdle
    /\ CodecIdle

(* the detailed script keeping the metric dicts of the SERVER log *)
ParseLogsLeaderMetrics ==
    /\ pc = "parse"
    /\ pc' = "check"
    /\ IF script = "phase"
       THEN /\ server_acts' = parse_log_active_only(server_lines)
            /\ client_acts' = parse_log_active_only(client_lines)
            /\ UNCHANGED <<rssi_by_time, rtt_by_time, quality_by_time>>
       ELSE IF script = "fixed"
       THEN /\ server_acts' = parse_log(server_lines)
            /\ client_acts' = parse_log(client_lines)
            /\ UNCHANGED <<rssi_by_time, rtt_by_time, quality_by_time>>
       ELSE \E server \in {parse_log_with_metrics(server_lines)},
               client \in {parse_log_with_metrics(client_lines)} :
                /\ server_acts' = server.activations
                /\ client_acts' = client.activations
                /\ rssi_by_time' = server.rssi
                /\ rtt_by_time' = server.rtt
                /\ quality_by_time' = server.quality
    /\ UNCHANGED <<script, server_idx, client_idx, all_phase_errors,
                   phase_with_metrics, good_count, warning_count,
                   overlap_count, drift_count, printed, summary>>
    /\ UNCHANGED <<parseVars, lookupVars, rerunVars, codecVars>>

(* main() parses the SERVER log, then the CLIENT log; the detailed script
   keeps the metric dicts of the CLIENT log only *)
ParseLogs ==
    /\ pc = "parse"
    /\ pc' = "check"
    /\ IF script = "phase"
       THEN /\ server_acts' = parse_log_active_only(server_lines)
            /\ client_acts' = parse_log_active_only(client_lines)
            /\ UNCHANGED <<rssi_by_time, rtt_by_time, quality_by_time>>
       ELSE IF script = "fixed"
       THEN /\ server_acts' = parse_log(server_lines)
            /\ client_acts' = parse_log(client_lines)
            /\ UNCHANGED <<rssi_by_time, rtt_by_time, quality_by_time>>
       ELSE \E server \in {parse_log_with_metrics(server_lines)},
               client \in {parse_log_with_metrics(client_lines)} :
                /\ server_acts' = server.activations
                /\ client_acts' = client.activations
                /\ rssi_by_time' = client.rssi
                /\ rtt_by_time' = client.rtt
                /\ quality_by_time' = client.quality
    /\ UNCHANGED <<script, server_idx, client_idx, all_phase_errors,
                   phase_with_metrics, good_count, warning_count,
                   overlap_count, drift_count, printed, summary>>
    /\ UNCHANGED <<parseVars, lookupVars, rerunVars, codecVars>>

NextParse == ParseLogs \/ Next

SpecParse == InitParse /\ [][NextParse]_vars

(* "I (ts) TIME_SYNC: RTT measured: v us" *)
RttLine(ts, v) ==
    Stamp(ts, "TIME_SYNC") \o
    <<SP, W("RTT"), SP, W("measured"), W(":"), SP, D(v), SP, W("us")>>

(* main() on a fixed SERVER capture and every CLIENT capture of at most
   MaxExtractLines lines: period updates (one of them with cycle 0),
   ACTIVE and INACTIVE lines in both spacings, and a beacon *)
MaxExtractLines == 3

LeaderCapture ==
    <<EpochLine(100, 2000), ActiveLine(1000), BeaconLine(950, 70, 500, 90),
      EpochLine(200, 500), ActiveLine(1000)>>

ExtractLines ==
    {EpochLine(100, 2000), EpochLine(200, 500), EpochLine(300, 0),
     ActiveLine(1000), Wide(ActiveLine(1000)), ActiveLine(700),
     InactiveLine(3000), Wide(InactiveLine(3000)),
     BeaconLine(900, 95, 81452, 40)}

InitExtract ==
    /\ script \in {"phase", "detailed", "fixed"}
    /\ pc = "parse"
    /\ server_lines = LeaderCapture
    /\ client_lines \in SeqsUpTo(ExtractLines, MaxExtractLines)
    /\ server_acts = <<>>
    /\ client_acts = <<>>
    /\ rssi_by_time = EmptyDict
    /\ rtt_by_time = EmptyDict
    /\ quality_by_time = EmptyDict
    /\ MainNames
    /\ LookupIdle
    /\ RerunIdle
    /\ CodecIdle

SpecExtract == InitExtract /\ [][NextParse]_vars

(* main() on a CLIENT capture with one RTT report between its period update
   and its ACTIVE line, in either format, the reported number lying within
   RttSpread of 1000 or being one of a few others *)
RttSpread == 10
RttRaws == {0, 1, 100, 81452} \cup ((1000 - RttSpread)..(1000 + RttSpread))

InitRtt ==
    /\ script \in {"phase", "detailed", "fixed"}
    /\ pc = "parse"
    /\ server_lines = <<EpochLine(100, 2000), ActiveLine(1000)>>
    /\ \E v \in RttRaws :
          \E report \in {BeaconLine(900, 95, v, 40), RttLine(900, v)} :
             client_lines = <<EpochLine(100, 2000), report, ActiveLine(2000)>>
    /\ server_acts = <<>>
    /\ client_acts = <<>>
    /\ rssi_by_time = EmptyDict
    /\ rtt_by_time = EmptyDict
    /\ quality_by_time = EmptyDict
    /\ MainNames
    /\ LookupIdle
    /\ RerunIdle
    /\ CodecIdle

SpecRtt == InitRtt /\ [][NextParse]_vars

----------------------------------------------------------------------------
(* find_last_known_metric called on a metric dict *)

MaxMetricTs == 3
MetricTimes == 1..MaxMetricTs
MetricValues == {-95, -60, 40}
QueryTimes == 0..(MaxMetricTs + 1)

DictsOver(K, V) == UNION {[k -> V] : k \in SUBSET K}

InitLookup ==
    /\ InputsOf("detailed", <<>>, <<>>, NoMetrics)
    /\ MainStart
    /\ ParseIdle
    /\ metric_by_time \in DictsOver(MetricTimes, MetricValues)
    /\ timestamp_ms = 0
    /\ found = None
    /\ called = FALSE
    /\ RerunIdle
    /\ CodecIdle

(* one call find_last_known_metric(timestamp_ms, metric_by_time) *)
Lookup ==
    /\ \E ts \in QueryTimes :
          /\ timestamp_ms' = ts
          /\ found' = find_last_known_metric(ts, metric_by_time)
    /\ called' = TRUE
    /\ UNCHANGED <<metric_by_time, mainVars, parseVars, rerunVars, codecVars>>

SpecLookup == InitLookup /\ [][Lookup]_vars

----------------------------------------------------------------------------
(* The detailed script on captures with many POOR cycles *)

(* the numbers of POOR cycles of the captures *)
PoorBucket == 10
LargeBucket == 90

(* n cycles in which the CLIENT starts 100 ms after the antiphase target
   (DRIFT), then g cycles in which it starts on the target (GOOD) *)
DriftServerActs(n, g) == [i \in 1..(n + g) |-> <<2000 * (i - 1), 2000>>]
DriftClientActs(n, g) ==
    [i \in 1..(n + g) |->
        <<2000 * (i - 1) + 1000 + (IF i <= n THEN 100 ELSE 0), 2000>>]

(* a metric sample 5 ms ahead of each of the n DRIFT activations: the value
   bad for the first k of them, the value edge for the others *)
SamplesAhead(n, k, bad, edge) ==
    [t \in {2000 * (i - 1) + 1095 : i \in 1..n} |->
        IF t <= 2000 * (k - 1) + 1095 THEN bad ELSE edge]

(* the CLIENT's metric dicts: one kind of metric sampled, with values on
   either side of its outlier threshold (an RTT in ms/1000) *)
LinkDicts(n, k) ==
    { [rssi |-> SamplesAhead(n, k, -91, -90), rtt |-> EmptyDict,
       quality |-> EmptyDict],
      [rssi |-> EmptyDict, rtt |-> SamplesAhead(n, k, 100001, 100000),
       quality |-> EmptyDict],
      [rssi |-> EmptyDict, rtt |-> EmptyDict,
       quality |-> SamplesAhead(n, k, 49, 50)] }

(* how many of the n POOR cycles carry the bad value: any number for the
   small capture, the numbers around the 0.3 and 0.7 shares for the large *)
BadCounts(n) ==
    IF n <= PoorBucket THEN 0..n
    ELSE ((3 * n) \div 10 - 1)..((3 * n) \div 10 + 1)

InitCorrelate ==
    /\ \E n \in {PoorBucket, LargeBucket}, g \in {0, 1} :
          \E k \in BadCounts(n) :
             \E md \in LinkDicts(n, k) :
                InputsOf("detailed", DriftServerActs(n, g),
                         DriftClientActs(n, g), md)
    /\ MainStart
    /\ ParseIdle
    /\ LookupIdle
    /\ RerunIdle
    /\ CodecIdle

(* main() of the detailed script after parsing *)
NextDetailed == EmptyCheck \/ Iterate \/ Summarize

SpecCorrelate == InitCorrelate /\ [][NextDetailed]_vars

(* The runs of main() whose termination is checked: the inputs of Init with
   lists of at most MaxFairLen activations each *)
MaxFairLen == 2

InitFair ==
    /\ \E sa \in SeqsUpTo(LeaderEvents, MaxFairLen),
          ca \in SeqsUpTo(FollowerEvents, MaxFairLen) :
          \/ InputsOf("phase", sa, ca, NoMetrics)
          \/ \E md \in MetricDicts : InputsOf("detailed", sa, ca, md)
          \/ IsSortedSet(sa) /\ IsSortedSet(ca)
             /\ InputsOf("fixed", sa, ca, NoMetrics)
    /\ MainStart
    /\ ParseIdle
    /\ LookupIdle
    /\ RerunIdle
    /\ CodecIdle

(* a program that runs to completion: every enabled step is eventually taken *)
FairSpec == InitFair /\ [][Next]_vars /\ WF_vars(Next)

(* what a run of main() that has ended leaves behind: how it ended, the
   indices it stopped at and everything it printed *)
RunOutput ==
    [outcome |-> pc, server_idx |-> server_idx, client_idx |-> client_idx,
     all_phase_errors |-> all_phase_errors,
     phase_with_metrics |-> phase_with_metrics,
     good_count |-> good_count, warning_count |-> warning_count,
     overlap_count |-> overlap_count, drift_count |-> drift_count,
     printed |-> printed, summary |-> summary]

(* the names are module-level: a second run starts with the lists and the
   counters the first run left *)
RerunKeepsNames ==
    /\ pc \in {"done", "exit1", "raised"}
    /\ first_run = None
    /\ first_run' = Some(RunOutput)
    /\ pc' = "check"
    /\ server_idx' = 0
    /\ client_idx' = 0
    /\ printed' = <<>>
    /\ summary' = None
    /\ UNCHANGED <<script, server_acts, client_acts, rssi_by_time, rtt_by_time,
                   quality_by_time, all_phase_errors, phase_with_metrics,
                   good_count, warning_count, overlap_count, drift_count>>
    /\ UNCHANGED <<parseVars, lookupVars, codecVars>>

(* the script is started again on the same two logs: main() is entered
   anew, its names are local and are initialised again *)
Rerun ==
    /\ pc \in {"done", "exit1", "raised"}
    /\ first_run = None
    /\ first_run' = Some(RunOutput)
    /\ pc' = "check"
    /\ server_idx' = 0
    /\ client_idx' = 0
    /\ all_phase_errors' = <<>>
    /\ phase_with_metrics' = <<>>
    /\ good_count' = 0
    /\ warning_count' = 0
    /\ overlap_count' = 0
    /\ drift_count' = 0
    /\ printed' = <<>>
    /\ summary' = None
    /\ UNCHANGED <<script, server_acts, client_acts, rssi_by_time, rtt_by_time,
                   quality_by_time>>
    /\ UNCHANGED <<parseVars, lookupVars, codecVars>>

NextRerun == Next \/ Rerun

(* two runs of main(), one after the other, on the inputs of InitFair *)
SpecRerun == InitFair /\ [][NextRerun]_vars

----------------------------------------------------------------------------
(* scripts/parse_serial_log.py: compress_line and decompress_line.  A text  *)
(* is the sequence of its characters.  A log line is held by the groups     *)
(* ESP_LOG_PATTERN matches in "hh:mm:ss.ms > L (tick) tag: message"; a      *)
(* compressed line by the groups the pattern of decompress_line matches in  *)
(* "time_str L (tick) tag: message".                                        *)

(* COMPRESSION_DICT, in its order: (original, replacement) *)
COMPRESSION_DICT ==
    << << <<"M", "O", "T", "O", "R", "_", "T", "A", "S", "K">>, <<"M", "T">>
          >>,
       << <<"B", "L", "E", "_", "M", "A", "N", "A", "G", "E", "R">>, <<"B",
          "M">> >>,
       << <<"B", "L", "E", "_", "T", "A", "S", "K">>, <<"B", "T">> >>,
       << <<"T", "I", "M", "E", "_", "S", "Y", "N", "C", "_", "T", "A", "S",
          "K">>, <<"T", "S">> >>,
       << <<"T", "I", "M", "E", "_", "S", "Y", "N", "C">>, <<"T", "S", "Y">>
          >>,
       << <<"B", "T", "N", "_", "T", "A", "S", "K">>, <<"B", "T", "N">> >>,
       << <<"B", "U", "T", "T", "O", "N", "_", "T", "A", "S", "K">>, <<"B",
          "T", "N">> >>,
       << <<"M", "O", "T", "O", "R", "_", "C", "T", "R", "L">>, <<"M", "C">>
          >>,
       << <<"L", "E", "D", "_", "C", "T", "R", "L">>, <<"L", "E", "D">> >>,
       << <<"S", "T", "A", "T", "U", "S", "_", "L", "E", "D">>, <<"S", "L",
          "E", "D">> >>,
       << <<"C", "L", "I", "E", "N", "T">>, <<"C">> >>,
       << <<"S", "E", "R", "V", "E", "R">>, <<"S">> >>,
       << <<"P", "A", "I", "R", "I", "N", "G">>, <<"P", "A", "I", "R">> >>,
       << <<"A", "D", "V", "E", "R", "T", "I", "S", "I", "N", "G">>, <<"A",
          "D", "V">> >>,
       << <<"C", "O", "N", "N", "E", "C", "T", "E", "D">>, <<"C", "O", "N",
          "N">> >>,
       << <<"D", "I", "S", "C", "O", "N", "N", "E", "C", "T", "E", "D">>,
          <<"D", "I", "S", "C">> >>,
       << <<"W", "a", "i", "t", "i", "n", "g", " ", "f", "o", "r">>, <<"W",
          "a", "i", "t">> >>,
       << <<"C", "h", "a", "r", "a", "c", "t", "e", "r", "i", "s", "t", "i",
          "c">>, <<"C", "h", "a", "r">> >>,
       << <<"n", "o", "t", "i", "f", "i", "c", "a", "t", "i", "o", "n">>,
          <<"n", "o", "t", "i", "f">> >>,
       << <<"N", "o", "t", "i", "f", "i", "c", "a", "t", "i", "o", "n",
          "s">>, <<"N", "o", "t", "i", "f", "s">> >>,
       << <<"C", "o", "n", "n", "e", "c", "t", "i", "o", "n">>, <<"C", "o",
          "n", "n">> >>,
       << <<"c", "o", "n", "n", "e", "c", "t", "i", "o", "n">>, <<"c", "o",
          "n", "n">> >>,
       << <<"D", "i", "s", "c", "o", "v", "e", "r", "y">>, <<"D", "i", "s",
          "c">> >>,
       << <<"d", "i", "s", "c", "o", "v", "e", "r", "y">>, <<"d", "i", "s",
          "c">> >>,
       << <<"B", "i", "l", "a", "t", "e", "r", "a", "l">>, <<"B", "i", "l",
          "a", "t">> >>,
       << <<"C", "o", "n", "f", "i", "g", "u", "r", "a", "t", "i", "o",
          "n">>, <<"C", "o", "n", "f", "i", "g">> >>,
       << <<"c", "o", "o", "r", "d", "i", "n", "a", "t", "i", "o", "n">>,
          <<"c", "o", "o", "r", "d">> >>,
       << <<"C", "o", "o", "r", "d", "i", "n", "a", "t", "i", "o", "n">>,
          <<"C", "o", "o", "r", "d">> >>,
       << <<"m", "e", "s", "s", "a", "g", "e">>, <<"m", "s", "g">> >>,
       << <<"M", "e", "s", "s", "a", "g", "e">>, <<"M", "s", "g">> >>,
       << <<"r", "e", "c", "e", "i", "v", "e", "d">>, <<"r", "c", "v">> >>,
       << <<"R", "e", "c", "e", "i", "v", "e", "d">>, <<"R", "c", "v">> >>,
       << <<"C", "o", "m", "p", "l", "e", "t", "e">>, <<"O", "K">> >>,
       << <<"c", "o", "m", "p", "l", "e", "t", "e">>, <<"o", "k">> >>,
       << <<"s", "u", "c", "c", "e", "s", "s", "f", "u", "l">>, <<"O", "K">>
          >>,
       << <<"S", "u", "c", "c", "e", "s", "s", "f", "u", "l", "l", "y">>,
          <<"O", "K">> >>,
       << <<"s", "t", "a", "r", "t", "e", "d">>, <<"s", "t", "a", "r", "t">>
          >>,
       << <<"s", "t", "o", "p", "p", "e", "d">>, <<"s", "t", "o", "p">> >>,
       << <<"e", "n", "a", "b", "l", "e", "d">>, <<"O", "N">> >>,
       << <<"E", "n", "a", "b", "l", "e", "d">>, <<"O", "N">> >>,
       << <<"d", "i", "s", "a", "b", "l", "e", "d">>, <<"O", "F", "F">> >>,
       << <<"D", "i", "s", "a", "b", "l", "e", "d">>, <<"O", "F", "F">> >>,
       << <<"h", "a", "n", "d", "l", "e">>, <<"h">> >>,
       << <<"S", "e", "r", "v", "i", "c", "e">>, <<"S", "v", "c">> >>,
       << <<"s", "e", "r", "v", "i", "c", "e">>, <<"s", "v", "c">> >>,
       << <<"B", "a", "t", "t", "e", "r", "y">>, <<"B", "A", "T">> >>,
       << <<"b", "a", "t", "t", "e", "r", "y">>, <<"b", "a", "t">> >>,
       << <<"v", "o", "l", "t", "a", "g", "e">>, <<"V">> >>,
       << <<"V", "o", "l", "t", "a", "g", "e">>, <<"V">> >>,
       << <<"M", "o", "d", "e", " ", "c", "h", "a", "n", "g", "e">>, <<"M",
          "→">> >>,
       << <<"m", "o", "d", "e", " ", "c", "h", "a", "n", "g", "e">>, <<"m",
          "→">> >>,
       << <<"F", "o", "r", "w", "a", "r", "d">>, <<"F", "W", "D">> >>,
       << <<"f", "o", "r", "w", "a", "r", "d">>, <<"f", "w", "d">> >>,
       << <<"R", "e", "v", "e", "r", "s", "e">>, <<"R", "E", "V">> >>,
       << <<"r", "e", "v", "e", "r", "s", "e">>, <<"r", "e", "v">> >>,
       << <<"c", "o", "a", "s", "t", "i", "n", "g">>, <<"c", "o", "a", "s",
          "t">> >>,
       << <<"C", "o", "a", "s", "t", "i", "n", "g">>, <<"C", "o", "a", "s",
          "t">> >>,
       << <<"b", "e", "a", "c", "o", "n">>, <<"b", "c", "n">> >>,
       << <<"B", "e", "a", "c", "o", "n">>, <<"B", "c", "n">> >>,
       << <<"o", "f", "f", "s", "e", "t">>, <<"o", "f", "f">> >>,
       << <<"O", "f", "f", "s", "e", "t">>, <<"O", "f", "f">> >>,
       << <<"q", "u", "a", "l", "i", "t", "y">>, <<"Q">> >>,
       << <<"Q", "u", "a", "l", "i", "t", "y">>, <<"Q">> >>,
       << <<"d", "r", "i", "f", "t">>, <<"d", "r", "f">> >>,
       << <<"D", "r", "i", "f", "t">>, <<"D", "r", "f">> >>,
       << <<"i", "n", "i", "t", "i", "a", "l", "i", "z", "e", "d">>, <<"i",
          "n", "i", "t">> >>,
       << <<"I", "n", "i", "t", "i", "a", "l", "i", "z", "e", "d">>, <<"I",
          "n", "i", "t">> >>,
       << <<"I", "n", "i", "t", "i", "a", "l", "i", "z", "e">>, <<"I", "n",
          "i", "t">> >>,
       << <<"I", "n", "i", "t", "i", "a", "l", "i", "z", "i", "n", "g">>,
          <<"I", "n", "i", "t">> >>,
       << <<"e", "s", "t", "a", "b", "l", "i", "s", "h", "i", "n", "g">>,
          <<"e", "s", "t", "a", "b">> >>,
       << <<"e", "s", "t", "a", "b", "l", "i", "s", "h", "e", "d">>, <<"e",
          "s", "t", "a", "b">> >>,
       << <<"E", "s", "t", "a", "b", "l", "i", "s", "h", "e", "d">>, <<"E",
          "s", "t", "a", "b">> >> >>

(* the characters \w matches among those of the model *)
WordChars ==
    {"a", "b", "c", "d", "e", "f", "g", "h", "i", "j", "k", "l", "m", "n",
      "o", "p", "q", "r", "s", "t", "u", "v", "w", "x", "y", "z", "A", "B",
      "C", "D", "E", "F", "G", "H", "I", "J", "K", "L", "M", "N", "O", "P",
      "Q", "R", "S", "T", "U", "V", "W", "X", "Y", "Z", "0", "1", "2", "3",
      "4", "5", "6", "7", "8", "9", "_"}

(* an ANSI colour code, taken as one character, and the null byte *)
ANSI == "ESC[0m"
NUL == "NUL"

(* ANSI_PATTERN.sub('', line) and line.replace('\x00', '') *)
StripControl(t) ==
    Comprehension(t, {i \in 1..Len(t) : t[i] \notin {ANSI, NUL}}, 1)

(* parse_timestamp(hh, mm, ss, ms) *)
parse_timestamp(hh, mm, ss, ms) ==
    hh * 3600000 + mm * 60000 + ss * 1000 + ms

(* pat occurs in t at position i *)
OccursAt(t, i, pat) ==
    /\ i + Len(pat) - 1 <= Len(t)
    /\ \A k \in 1..Len(pat) : t[i + k - 1] = pat[k]

(* \b before position i of t: exactly one of the characters at i - 1 and at
   i is a word character, the ends of t counting as none *)
IsWordAt(t, i) == i >= 1 /\ i <= Len(t) /\ t[i] \in WordChars
WordBoundary(t, i) == IsWordAt(t, i - 1) # IsWordAt(t, i)

(* t[i:] with the occurrences of pat replaced by rep, from the left and
   without overlap: str.replace, or re.sub of \bpat\b when whole_word *)
RECURSIVE ReplaceFrom(_, _, _, _, _)
ReplaceFrom(t, i, pat, rep, whole_word) ==
    IF i > Len(t) THEN <<>>
    ELSE IF /\ OccursAt(t, i, pat)
            /\ whole_word =>
                  WordBoundary(t, i) /\ WordBoundary(t, i + Len(pat))
         THEN rep \o ReplaceFrom(t, i + Len(pat), pat, rep, whole_word)
         ELSE <<t[i]>> \o ReplaceFrom(t, i + 1, pat, rep, whole_word)

(* d.get(key, key) of a dict held as the list of its items *)
GetOrKey(d, key) ==
    LET hits == {k \in 1..Len(d) : d[k][1] = key}
    IN  IF hits = {} THEN key
        ELSE d[CHOOSE k \in hits : \A j \in hits : j <= k][2]

(* the message after the passes lo..hi of "for original, replacement in
   COMPRESSION_DICT.items()", the passes of the first half before those of
   the second: a phrase with a space is replaced wherever it occurs, a
   single word between word boundaries *)
RECURSIVE CompressedMsg(_, _, _)
CompressedMsg(message, lo, hi) ==
    IF lo > hi THEN message
    ELSE IF lo = hi
    THEN LET original == COMPRESSION_DICT[lo][1]
             replacement == COMPRESSION_DICT[lo][2]
         IN  ReplaceFrom(message, 1, original, replacement,
                         \A j \in 1..Len(original) : original[j] # " ")
    ELSE CHOOSE after \in
             {CompressedMsg(half, (lo + hi) \div 2 + 1, hi) :
                 half \in {CompressedMsg(message, lo, (lo + hi) \div 2)}} :
             TRUE

(* "time_str": the absolute timestamp of the line, or its delta to the base
   ("+231", "-5": int(time_str) reads back the number that was written) *)
AbsoluteTime(hh, mm, ss, ms) ==
    [absolute |-> TRUE, hh |-> hh, mm |-> mm, ss |-> ss, ms |-> ms,
     delta_ms |-> 0]
DeltaTime(delta_ms) ==
    [absolute |-> FALSE, hh |-> 0, mm |-> 0, ss |-> 0, ms |-> 0,
     delta_ms |-> delta_ms]

(* compress_line(line, base_timestamp_ms) of a line ESP_LOG_PATTERN
   matches: (compressed_line, timestamp_ms) *)
compress_line(l, base) ==
    LET line_ms == parse_timestamp(l.hh, l.mm, l.ss, l.ms)
        message == StripControl(l.message)
    IN  [compressed_line |->
            [time_str |-> IF base = None
                          THEN AbsoluteTime(l.hh, l.mm, l.ss, l.ms)
                          ELSE DeltaTime(line_ms - base[1]),
             level |-> l.level,
             tick |-> l.tick,
             tag |-> GetOrKey(COMPRESSION_DICT, l.tag),
             message |-> CompressedMsg(message, 1, Len(COMPRESSION_DICT))],
         timestamp_ms |-> line_ms]

(* reverse_dict = {v: k for k, v in COMPRESSION_DICT.items()}: a key stays
   where it was first inserted and takes the last value assigned to it *)
reverse_dict ==
    LET n == Len(COMPRESSION_DICT)
        Abbrev(i) == COMPRESSION_DICT[i][2]
        first == Comprehension(COMPRESSION_DICT,
                     {i \in 1..n : \A j \in 1..(i - 1) : Abbrev(j) # Abbrev(i)},
                     1)
        LastOf(v) == CHOOSE i \in 1..n :
                        Abbrev(i) = v /\ \A j \in (i + 1)..n : Abbrev(j) # v
    IN  [k \in 1..Len(first) |->
            <<first[k][2], COMPRESSION_DICT[LastOf(first[k][2])][1]>>]

(* the message after the passes lo..hi of "for compressed, original in
   reverse_dict.items()", each a str.replace *)
RECURSIVE DecompressedMsg(_, _, _, _)
DecompressedMsg(message, rd, lo, hi) ==
    IF lo > hi THEN message
    ELSE IF lo = hi
    THEN ReplaceFrom(message, 1, rd[lo][1], rd[lo][2], FALSE)
    ELSE CHOOSE after \in
             {DecompressedMsg(half, rd, (lo + hi) \div 2 + 1, hi) :
                 half \in {DecompressedMsg(message, rd, lo,
                                           (lo + hi) \div 2)}} : TRUE

(* decompress_line(compressed_line, reverse_dict, base_timestamp_ms): the
   groups of the line it returns, "timestamp > I (tick) tag: message" *)
decompress_line(c, rd, base) ==
    LET total_ms == base + c.time_str.delta_ms
    IN  [hh |-> IF c.time_str.absolute THEN c.time_str.hh
                ELSE (total_ms \div 3600000) % 24,
         mm |-> IF c.time_str.absolute THEN c.time_str.mm
                ELSE (total_ms % 3600000) \div 60000,
         ss |-> IF c.time_str.absolute THEN c.time_str.ss
                ELSE (total_ms % 60000) \div 1000,
         ms |-> IF c.time_str.absolute THEN c.time_str.ms
                ELSE total_ms % 1000,
         level |-> "I",
         tick |-> c.tick,
         tag |-> GetOrKey(rd, c.tag),
         message |-> DecompressedMsg(c.message, rd, 1, Len(rd))]

(* the body of the loop of parse_log_file for one line: compress_line, and
   the base timestamp set from the first line *)
CompressLine ==
    /\ pc = "compress"
    /\ LET r == compress_line(log_line[1], base_timestamp_ms)
       IN  /\ compressed_line' = Some(r.compressed_line)
           /\ base_timestamp_ms' = IF base_timestamp_ms = None
                                   THEN Some(r.timestamp_ms)
                                   ELSE base_timestamp_ms
    /\ pc' = "validate"
    /\ UNCHANGED <<log_line, decompressed>>
    /\ UNCHANGED <<script, server_acts, client_acts, rssi_by_time, rtt_by_time,
                   quality_by_time, server_idx, client_idx, all_phase_errors,
                   phase_with_metrics, good_count, warning_count,
                   overlap_count, drift_count, printed, summary>>
    /\ UNCHANGED <<parseVars, lookupVars, rerunVars>>

(* the round-trip test of validate_compression on the line *)
DecompressLine ==
    /\ pc = "validate"
    /\ decompressed' = Some(decompress_line(compressed_line[1], reverse_dict,
                                            base_timestamp_ms[1]))
    /\ pc' = "validated"
    /\ UNCHANGED <<log_line, base_timestamp_ms, compressed_line>>
    /\ UNCHANGED <<script, server_acts, client_acts, rssi_by_time, rtt_by_time,
                   quality_by_time, server_idx, client_idx, all_phase_errors,
                   phase_with_metrics, good_count, warning_count,
                   overlap_count, drift_count, printed, summary>>
    /\ UNCHANGED <<parseVars, lookupVars, rerunVars>>

(* The log lines of the model: a clock time, a level, a tag and a message
   of at most MaxWords words with one space between them *)
TextWaiting == <<"W", "a", "i", "t", "i", "n", "g">>
TextFor == <<"f", "o", "r">>
TextComplete == <<"C", "o", "m", "p", "l", "e", "t", "e">>
TextOK == <<"O", "K">>
TextCycle == <<"C", "y", "c", "l", "e">>
TextMotor == <<"m", "o", "t", "o", "r">>
TextMotorTask == <<"M", "O", "T", "O", "R", "_", "T", "A", "S", "K">>
TextBtnTask == <<"B", "T", "N", "_", "T", "A", "S", "K">>
TextButtonTask == <<"B", "U", "T", "T", "O", "N", "_", "T", "A", "S", "K">>
TextApp == <<"A", "P", "P">>

TextDone == <<"d", "o", "n", "e", ANSI>>
CodecWords ==
    {TextWaiting, TextFor, TextComplete, TextOK, TextCycle, TextMotor,
     TextDone}
CodecTags == {TextMotorTask, TextBtnTask, TextButtonTask, TextApp}
CodecLevels == {"I", "W"}
CodecClocks == {<<15, 26, 25, 231>>, <<0, 0, 0, 5>>}

MaxWords == 2

RECURSIVE JoinWords(_)
JoinWords(ws) ==
    IF ws = <<>> THEN <<>>
    ELSE IF Len(ws) = 1 THEN ws[1]
    ELSE ws[1] \o <<" ">> \o JoinWords(Tail(ws))

CodecMessages == {JoinWords(ws) : ws \in SeqsUpTo(CodecWords, MaxWords)}

LogLine(clock, level, tick, tag, message) ==
    [hh |-> clock[1], mm |-> clock[2], ss |-> clock[3], ms |-> clock[4],
     level |-> level, tick |-> tick, tag |-> tag, message |-> message]

(* parse_log_file about to compress a line: the first line of the file, or
   a later one with the base timestamp an earlier line has set *)
InitCodec ==
    /\ \E clock \in CodecClocks, level \in CodecLevels, tag \in CodecTags,
          message \in CodecMessages :
          log_line = Some(LogLine(clock, level, 100, tag, message))
    /\ base_timestamp_ms \in
          {None} \cup {Some(parse_timestamp(b[1], b[2], b[3], b[4])) :
                          b \in CodecClocks}
    /\ compressed_line = None
    /\ decompressed = None
    /\ pc = "compress"
    /\ InputsOf("serial", <<>>, <<>>, NoMetrics)
    /\ MainNames
    /\ ParseIdle
    /\ LookupIdle
    /\ RerunIdle

NextCodec == CompressLine \/ DecompressLine

SpecCodec == InitCodec /\ [][NextCodec]_vars

----------------------------------------------------------------------------
(* Properties of the pairing loop *)

HalfPeriodScript == script \in {"phase", "detailed"}

(* floor(p / 2), stated by its defining inequalities *)
FloorHalf(p) ==
    CHOOSE h \in {(p - 1) \div 2, p \div 2, (p + 1) \div 2} :
        2 * h <= p /\ p < 2 * h + 2

(* the indices the loop held after the iteration that printed row i *)
IdxAfter(i) ==
    IF i < Len(printed)
    THEN <<printed[i + 1].server_idx, printed[i + 1].client_idx>>
    ELSE <<server_idx, client_idx>>

(* the increments <<of server_idx, of client_idx>> made by iteration i *)
RowStep(i) == <<IdxAfter(i)[1] - printed[i].server_idx,
                IdxAfter(i)[2] - printed[i].client_idx>>

(* timestamps never decrease along the list *)
TimeOrdered(acts) ==
    \A i, j \in 1..Len(acts) : i < j => acts[i][1] <= acts[j][1]

(* C1: for time-ordered lists, in the rows produced by the half-period loop,
   one per iteration, no SERVER activation and no CLIENT activation is
   referenced by two rows *)
C1_NoEventPairedTwice ==
    (HalfPeriodScript /\ TimeOrdered(server_acts) /\ TimeOrdered(client_acts)) =>
        \A i, j \in 1..Len(printed) :
            i # j => /\ printed[i].server_idx # printed[j].server_idx
                     /\ printed[i].client_idx # printed[j].client_idx

(* C2: an iteration that compares server_acts[server_idx] with
   client_acts[client_idx] advances client_idx alone when
   phase_error < -half, server_idx alone when phase_error > half, and both
   otherwise (the boundaries -half and half included), half = floor(period/2) *)
C2_AdvanceRule ==
    [][ (HalfPeriodScript /\ printed' # printed) =>
          LET server_ev == server_acts[server_idx + 1]
              client_ev == client_acts[client_idx + 1]
              half == FloorHalf(server_ev[2])
              phaseError == client_ev[1] - (server_ev[1] + half)
          IN  /\ phaseError < -half =>
                    client_idx' = client_idx + 1 /\ server_idx' = server_idx
              /\ phaseError > half =>
                    server_idx' = server_idx + 1 /\ client_idx' = client_idx
              /\ (-half <= phaseError /\ phaseError <= half) =>
                    server_idx' = server_idx + 1 /\ client_idx' = client_idx + 1
      ]_vars

(* C2 witness: a run in which a SERVER-only advance, then a CLIENT-only
   advance were made *)
C2_Witness ==
    /\ HalfPeriodScript
    /\ Len(printed) >= 2
    /\ RowStep(1) = <<1, 0>>
    /\ RowStep(2) = <<0, 1>>

(* C3: every loop ends, after at most len(server_acts) + len(client_acts)
   iterations, each iteration having incremented at least one index *)
C3_Terminates ==
    /\ <>(pc \in {"done", "exit1"})
    /\ [](Len(printed) <= Len(server_acts) + Len(client_acts))
    /\ [][printed' # printed =>
            /\ server_idx' >= server_idx
            /\ client_idx' >= client_idx
            /\ server_idx' + client_idx' > server_idx + client_idx]_vars

(* C3 witness: a finished run of the fixed script that took as many
   iterations as the two lists allow *)
C3_Witness ==
    /\ script = "fixed"
    /\ pc = "done"
    /\ Len(printed) >= 3
    /\ Len(printed) = Len(server_acts) + Len(client_acts) - 1

(* C4: server_idx and client_idx start at 0, never decrease, grow by at most
   one per iteration, stay within 0..len of their list, and a list is read
   only at an index below its length *)
C4_IndexBounds ==
    /\ (server_idx = 0 /\ client_idx = 0)
    /\ [](HalfPeriodScript =>
            /\ server_idx \in 0..Len(server_acts)
            /\ client_idx \in 0..Len(client_acts)
            /\ pc # "raised"
            /\ \A i \in 1..Len(printed) :
                  /\ printed[i].server_idx < Len(server_acts)
                  /\ printed[i].client_idx < Len(client_acts))
    /\ [][HalfPeriodScript =>
            /\ server_idx' \in {server_idx, server_idx + 1}
            /\ client_idx' \in {client_idx, client_idx + 1}]_vars

(* C4 witness: both indices have reached the ends of their lists *)
C4_Witness ==
    /\ HalfPeriodScript
    /\ pc = "done"
    /\ server_idx = Len(server_acts)
    /\ client_idx = Len(client_acts)
    /\ Len(printed) >= 3

(* C5: for SERVER [(0,2000)] and CLIENT [(-1200,2000),(1000,2000)] the first
   CLIENT event is skipped by a CLIENT-only advance and is not reported as a
   pairing; the second is paired with phase error 0 and status GOOD *)
C5_SkipScenario ==
    ( /\ script = "phase"
      /\ server_acts = << <<0, 2000>> >>
      /\ client_acts = << <<-1200, 2000>>, <<1000, 2000>> >>
      /\ pc = "done" ) =>
        /\ server_idx = 1
        /\ client_idx = 2
        /\ \E i \in 1..Len(printed) :
              /\ printed[i].server_idx = 0
              /\ printed[i].client_idx = 1
              /\ printed[i].phase_error_ms = 0
              /\ printed[i].status = "GOOD"
        /\ \A i \in 1..Len(printed) : printed[i].client_idx # 0
        /\ all_phase_errors = <<0>>

(* C6: the loop stops as soon as one index reaches the end of its list, and
   the events of the other list at or after its final index are in no row;
   SERVER [(0,2000),(2000,2000),(4000,2000)] with CLIENT
   [(1005,2000),(3050,2000)] gives exactly two rows, targets 1000 and 3000,
   phase errors +5 and +50, GOOD and WARNING, and no row for the SERVER
   event at 4000 *)
C6_StopAndDrop ==
    (HalfPeriodScript /\ pc = "done") =>
        /\ server_idx = Len(server_acts) \/ client_idx = Len(client_acts)
        /\ \A i \in 1..Len(printed) :
              /\ printed[i].server_idx < server_idx
              /\ printed[i].client_idx < client_idx
        /\ ( /\ server_acts = << <<0, 2000>>, <<2000, 2000>>, <<4000, 2000>> >>
             /\ client_acts = << <<1005, 2000>>, <<3050, 2000>> >> ) =>
              /\ Len(printed) = 2
              /\ printed[1].target_client_ts = 1000
              /\ printed[2].target_client_ts = 3000
              /\ all_phase_errors = <<5, 50>>
              /\ printed[1].status = "GOOD"
              /\ printed[2].status = "WARNING"
              /\ \A i \in 1..2 : printed[i].server_idx # 2

(* C7: the status of a row is GOOD iff |e| <= 10, WARNING iff 10 < |e| <= 50,
   OVERLAP iff e < -50 and DRIFT iff e > 50, e the signed phase error of the
   compared pair, in each of the three scripts *)
C7_StatusOfError ==
    \A i \in 1..Len(printed) :
        LET e == client_acts[printed[i].client_idx + 1][1]
                   - server_acts[printed[i].server_idx + 1][1]
                   - FloorHalf(server_acts[printed[i].server_idx + 1][2])
            st == printed[i].status
        IN  /\ st \in {"GOOD", "WARNING", "OVERLAP", "DRIFT"}
            /\ st = "GOOD" <=> Abs(e) <= 10
            /\ st = "WARNING" <=> (10 < Abs(e) /\ Abs(e) <= 50)
            /\ st = "OVERLAP" <=> e < -50
            /\ st = "DRIFT" <=> e > 50
            /\ e = 10 => st = "GOOD"
            /\ e = -10 => st = "GOOD"
            /\ e \in {11, 50, -50} => st = "WARNING"
            /\ e = 51 => st = "DRIFT"
            /\ e = -51 => st = "OVERLAP"

(* C7 witness: the fixed script has classified a phase error of -51 *)
C7_Witness ==
    /\ script = "fixed"
    /\ Len(printed) = 1
    /\ printed[1].phase_error_ms = -51
    /\ printed[1].status = "OVERLAP"

(* C8: every row of the half-period loop has
   target = SERVER timestamp + floor(SERVER period / 2) and
   phase error = CLIENT timestamp - target, and the iteration advanced by
   comparing the phase error with the same floor(SERVER period / 2) *)
C8_TargetAndPhaseError ==
    HalfPeriodScript =>
        /\ Len(all_phase_errors) = Len(printed)
        /\ \A i \in 1..Len(printed) :
            LET server_ev == server_acts[printed[i].server_idx + 1]
                client_ev == client_acts[printed[i].client_idx + 1]
                half == FloorHalf(server_ev[2])
                e == client_ev[1] - (server_ev[1] + half)
            IN  /\ printed[i].target_client_ts = server_ev[1] + half
                /\ printed[i].target_rel_ms = half
                /\ printed[i].phase_error_ms = e
                /\ all_phase_errors[i] = e
                /\ RowStep(i) = IF e < -half THEN <<0, 1>>
                                ELSE IF e > half THEN <<1, 0>>
                                ELSE <<1, 1>>

(* C8 witness: a row for a SERVER event of odd period 2001, offset 1000,
   compared with a CLIENT event of another period *)
C8_Witness ==
    /\ HalfPeriodScript
    /\ \E i \in 1..Len(printed) :
          /\ printed[i].server_period = 2001
          /\ printed[i].target_rel_ms = 1000
          /\ client_acts[printed[i].client_idx + 1][2] = 500
          /\ printed[i].phase_error_ms = 0

(* the greatest element of a non-empty set of integers *)
MaxOf(S) == CHOOSE x \in S : \A y \in S : y <= x

(* C9: find_last_known_metric returns the value of the sample with the
   greatest timestamp <= t, and None iff no sample has a timestamp <= t;
   a sample at exactly t is used, and for t1 < t2 the sample settled on for
   t2 is never older than the one settled on for t1 *)
C9_LastKnownMetric ==
    called =>
        LET atOrBefore == {k \in DOMAIN metric_by_time : k <= timestamp_ms}
        IN  /\ found = None <=> atOrBefore = {}
            /\ atOrBefore # {} =>
                  found = Some(metric_by_time[MaxOf(atOrBefore)])
            /\ timestamp_ms \in DOMAIN metric_by_time =>
                  found = Some(metric_by_time[timestamp_ms])
            /\ \A t1, t2 \in QueryTimes :
                  (t1 < t2 /\ LastMetricTs(t1, metric_by_time) # None) =>
                     /\ LastMetricTs(t2, metric_by_time) # None
                     /\ LastMetricTs(t1, metric_by_time)[1]
                          <= LastMetricTs(t2, metric_by_time)[1]

(* C9 witness: a lookup at the timestamp of the middle one of three samples
   has returned that sample's value, which differs from the two others *)
C9_Witness ==
    /\ called
    /\ DOMAIN metric_by_time = {1, 2, 3}
    /\ timestamp_ms = 2
    /\ metric_by_time[1] # metric_by_time[2]
    /\ metric_by_time[3] # metric_by_time[2]
    /\ found = Some(metric_by_time[2])

(* C10: the activation list of each stream handed to the pairing loop is in
   non-decreasing timestamp order, whatever the order of the lines, for
   parse_log_active_only, parse_log_with_metrics and parse_log *)
C10_ActivationsTimeOrdered ==
    pc # "parse" => TimeOrdered(server_acts) /\ TimeOrdered(client_acts)

----------------------------------------------------------------------------
(* Properties of the extractors *)

(* a line with its spaces taken out, whatever its spacing was *)
RECURSIVE Unspaced(_)
Unspaced(line) ==
    IF line = <<>> THEN <<>>
    ELSE IF Head(line).s = " " THEN Unspaced(Tail(line))
    ELSE <<Head(line)>> \o Unspaced(Tail(line))

(* the words a line ends with, and the tick count after its "I (" *)
EndsWith(line, words) ==
    LET u == Unspaced(line)
    IN  /\ Len(u) >= Len(words)
        /\ \A k \in 1..Len(words) :
              u[Len(u) - Len(words) + k].s = words[k]
StampOf(line) == Unspaced(line)[3].n

ReportsActive(line) == EndsWith(line, <<"MOTOR_TASK", ":", "Cycle", "starts", "ACTIVE">>)
ReportsInactive(line) == EndsWith(line, <<"Cycle", "starts", "IN", "ACTIVE">>)

(* the events acts extracted from lines come from ACTIVE reports only *)
OnlyActiveReports(acts, lines) ==
    /\ \A k \in 1..Len(acts) :
          \E i \in 1..Len(lines) :
              ReportsActive(lines[i]) /\ StampOf(lines[i]) = acts[k][1]
    /\ \A i \in 1..Len(lines) :
          ReportsInactive(lines[i]) =>
              \A k \in 1..Len(acts) : acts[k][1] # StampOf(lines[i])
    /\ Len(acts) <= Cardinality({i \in 1..Len(lines) : ReportsActive(lines[i])})

(* C11: when the logs have been parsed, no 'Cycle starts INACTIVE' line, in either
   spacing, has added an activation: every event of server_acts and of
   client_acts carries the tick count of a 'MOTOR_TASK: Cycle starts ACTIVE'
   line, and there are at most as many events as such lines, in each of the
   three extractors *)
C11_InactiveNeverExtracted ==
    pc = "check" =>
        /\ OnlyActiveReports(server_acts, server_lines)
        /\ OnlyActiveReports(client_acts, client_lines)

(* C11 witness: a CLIENT log with a period update, the INACTIVE report in
   the wide spacing and one ACTIVE report has given exactly the ACTIVE event *)
C11_Witness ==
    /\ pc = "check"
    /\ client_lines = <<EpochLine(100, 2000), Wide(InactiveLine(3000)),
                        ActiveLine(1000)>>
    /\ client_acts = << <<1000, 2000>> >>

(* a period-update line and the period it reports *)
IsPeriodUpdate(line) == EndsWith(line, <<"cycle", ":", "#", "ms">>)
PeriodValue(line) == LET u == Unspaced(line) IN u[Len(u) - 1].n

(* the position of the last period update above line i, 0 if there is none *)
LastUpdateBefore(lines, i) ==
    LET above == {j \in 1..(i - 1) : IsPeriodUpdate(lines[j])}
    IN  IF above = {} THEN 0 ELSE MaxOf(above)

(* the events of lines[i..]: one per ACTIVE report that has a period update
   with a positive period above it, carrying that period *)
RECURSIVE EventsFrom(_, _)
EventsFrom(lines, i) ==
    IF i > Len(lines) THEN <<>>
    ELSE LET j == LastUpdateBefore(lines, i)
         IN  IF ReportsActive(lines[i]) /\ j # 0 /\ PeriodValue(lines[j]) > 0
             THEN << <<StampOf(lines[i]), PeriodValue(lines[j])>> >>
                      \o EventsFrom(lines, i + 1)
             ELSE EventsFrom(lines, i + 1)

(* C12: parse_log_active_only and parse_log_with_metrics return, in line
   order, one event per ACTIVE line that has a period update above it, with
   the period of the nearest such update; an ACTIVE line with no update above
   it gives no event, every period is strictly positive, and an update below
   an ACTIVE line does not change its event *)
C12_PeriodOfLatestUpdate ==
    (pc = "check" /\ script \in {"phase", "detailed"}) =>
        /\ server_acts = EventsFrom(server_lines, 1)
        /\ client_acts = EventsFrom(client_lines, 1)
        /\ \A k \in 1..Len(client_acts) : client_acts[k][2] > 0

(* C12 witness: an ACTIVE line above every update is dropped, and the
   ACTIVE line below the update to 500 ms carries 500 *)
C12_Witness ==
    /\ pc = "check"
    /\ script = "detailed"
    /\ client_lines = <<ActiveLine(700), EpochLine(200, 500), ActiveLine(1000)>>
    /\ client_acts = << <<1000, 500>> >>

(* the set of the elements of a list *)
Range(acts) == {acts[k] : k \in 1..Len(acts)}

(* acts is what the deduplicating extractor owes for lines *)
DedupOf(acts, lines) ==
    /\ \A i, j \in 1..Len(acts) : i # j => acts[i] # acts[j]
    /\ Range(acts) = Range(parse_log_active_only(lines))
    /\ Range(acts) = Range(EventsFrom(lines, 1))
    /\ \A i, j \in 1..Len(acts) :
          i < j => \/ acts[i][1] < acts[j][1]
                   \/ acts[i][1] = acts[j][1] /\ acts[i][2] < acts[j][2]

(* C13: parse_log returns every (timestamp_ms, period_ms) pair once, however
   many lines report it, returns exactly the pairs parse_log_active_only
   returns for the same lines, and returns them in ascending order of
   timestamp, then period *)
C13_DedupSortedSameSet ==
    (pc = "check" /\ script = "fixed") =>
        /\ DedupOf(server_acts, server_lines)
        /\ DedupOf(client_acts, client_lines)

(* C13 witness: the CLIENT pair reported by two lines is returned once, and
   the two SERVER pairs of one timestamp are returned by ascending period,
   against the order of their lines *)
C13_Witness ==
    /\ pc = "check"
    /\ script = "fixed"
    /\ client_lines = <<EpochLine(100, 2000), ActiveLine(1000),
                        Wide(ActiveLine(1000))>>
    /\ client_acts = << <<1000, 2000>> >>
    /\ parse_log_active_only(server_lines) = << <<1000, 2000>>, <<1000, 500>> >>
    /\ server_acts = << <<1000, 500>>, <<1000, 2000>> >>

----------------------------------------------------------------------------
(* Properties of the run as a whole *)

(* C14: when server_acts or client_acts is empty, the step after the check
   is sys.exit(1): the run is never in the loop and never ends any other way,
   and at exit no row is printed, no phase error recorded, the four status
   counters are 0 and no statistics exist; exit 1 is taken for no other
   reason *)
C14_EmptyStreamAborts ==
    /\ (server_acts = <<>> \/ client_acts = <<>>) =>
          pc \in {"parse", "check", "exit1"}
    /\ pc = "exit1" =>
          /\ server_acts = <<>> \/ client_acts = <<>>
          /\ printed = <<>>
          /\ all_phase_errors = <<>>
          /\ phase_with_metrics = <<>>
          /\ good_count = 0 /\ warning_count = 0
          /\ overlap_count = 0 /\ drift_count = 0
          /\ summary = None
          /\ server_idx = 0 /\ client_idx = 0

(* C14 witness: a run with SERVER activations and no CLIENT activation has
   exited with status 1 *)
C14_Witness ==
    /\ pc = "exit1"
    /\ Len(server_acts) = 2
    /\ client_acts = <<>>

(* the number of printed rows of one status *)
RowsOf(st) == Cardinality({i \in 1..Len(printed) : printed[i].status = st})

(* C15: a finished run of the phase or detailed script has printed its
   statistics whatever the number of rows: "N/A" in the place of the standard
   deviation exactly when there are fewer than two rows, the standard
   deviation itself exactly when there are two or more, and in both cases
   the count, the mean (sum over count), the least and the greatest phase
   error and the four status shares; no such run ends in an exception *)
C15_StdevAbsentBelowTwo ==
    HalfPeriodScript =>
        /\ pc # "raised"
        /\ pc = "done" =>
              /\ summary # None
              /\ LET st == summary[1]
                     errs == {printed[i].phase_error_ms : i \in 1..Len(printed)}
                 IN  /\ st.total = Len(printed)
                     /\ st.total >= 1
                     /\ st.stdev = "N/A" <=> st.total < 2
                     /\ st.stdev = "stdev" <=> st.total >= 2
                     /\ st.sum = SumSeq([i \in 1..Len(printed) |->
                                            printed[i].phase_error_ms])
                     /\ st.min \in errs /\ \A e \in errs : st.min <= e
                     /\ st.max \in errs /\ \A e \in errs : e <= st.max
                     /\ st.good_x100 = 100 * RowsOf("GOOD")
                     /\ st.warning_x100 = 100 * RowsOf("WARNING")
                     /\ st.overlap_x100 = 100 * RowsOf("OVERLAP")
                     /\ st.drift_x100 = 100 * RowsOf("DRIFT")

(* C15 witness: a run of the phase script with a single row has finished
   with "N/A" and with mean, min and max all equal to that row's error *)
C15_Witness ==
    /\ script = "phase"
    /\ pc = "done"
    /\ Len(printed) = 1
    /\ summary # None
    /\ summary[1].stdev = "N/A"
    /\ summary[1].sum = 50
    /\ summary[1].min = 50
    /\ summary[1].max = 50
    /\ summary[1].warning_x100 = 100

----------------------------------------------------------------------------
(* Properties of the correlation analysis *)

(* the POOR cycles among the samples that carry a metric, and those of them
   that satisfy a condition on (phase_error, rssi, rtt, quality) *)
PoorSamples == {i \in 1..Len(phase_with_metrics) :
                   Abs(phase_with_metrics[i][1]) > 50}
PoorWith(Cond(_)) == {i \in PoorSamples : Cond(phase_with_metrics[i])}

WeakSignal(m) == m[2] # None /\ m[2][1] < -90
NoLinkIssue(m) ==
    /\ m[2] = None \/ m[2][1] >= -90
    /\ m[3] = None \/ m[3][1] <= 100000
    /\ m[4] = None \/ m[4][1] >= 50

(* the outlier analysis a finished run printed *)
Analysed == pc = "done" /\ summary # None /\ summary[1].ble # None
                /\ summary[1].ble[1].outliers # None
Outliers == summary[1].ble[1].outliers[1]

(* C16 as stated: with 10 POOR cycles of which exactly 4 have an RSSI below
   -90 dBm, the weak-RSSI correlation is not flagged *)
C16_FourOfTenNotFlagged ==
    ( /\ Analysed
      /\ Cardinality(PoorSamples) = 10
      /\ Cardinality(PoorWith(WeakSignal)) = 4 ) =>
        Outliers.rssi_flag = FALSE

(* C16 as the code has it: the weak-RSSI correlation is flagged exactly when
   the POOR cycles with an RSSI below -90 dBm are more than three tenths of
   the POOR cycles; 4 of 10 is flagged, 3 of 10 is not *)
C16_FlaggedAboveThreeTenths ==
    Analysed =>
        LET poor == Cardinality(PoorSamples)
            weak == Cardinality(PoorWith(WeakSignal))
        IN  /\ Outliers.total = poor
            /\ Outliers.rssi_outliers = weak
            /\ Outliers.rssi_flag <=> 10 * weak > 3 * poor
            /\ (poor = 10 /\ weak = 4) => Outliers.rssi_flag
            /\ (poor = 10 /\ weak = 3) => ~Outliers.rssi_flag

(* C16 witness: a finished run with 10 POOR cycles, 4 of them with an RSSI
   of -91 dBm, has raised the weak-RSSI flag *)
C16_Witness ==
    /\ Analysed
    /\ Cardinality(PoorSamples) = 10
    /\ Cardinality(PoorWith(WeakSignal)) = 4
    /\ Outliers.rssi_flag

(* C17: a POOR cycle has no link issue iff its RSSI is absent or >= -90, its
   RTT absent or <= 100 ms and its quality absent or >= 50, and the run is
   flagged as not caused by the link exactly when the POOR cycles without
   link issue are strictly more than 70% of the POOR cycles *)
C17_NotLinkRelatedAboveSeventyPercent ==
    Analysed =>
        LET poor == Cardinality(PoorSamples)
            clean == Cardinality(PoorWith(NoLinkIssue))
        IN  /\ Outliers.no_ble_issues = clean
            /\ Outliers.not_ble_flag <=> 10 * clean > 7 * poor

(* the sum of f over a finite set of indices *)
RECURSIVE SumOver(_, _)
SumOver(S, f) ==
    IF S = {} THEN 0
    ELSE LET i == CHOOSE x \in S : TRUE IN f[i] + SumOver(S \ {i}, f)

(* the samples of phase_with_metrics whose |phase error| is in lo..hi *)
BucketSamples(lo, hi) ==
    {i \in 1..Len(phase_with_metrics) :
        lo <= Abs(phase_with_metrics[i][1]) /\ Abs(phase_with_metrics[i][1]) <= hi}

(* line is the statistics of column c over the samples of B where it is
   present, or "No data" when it is present in none *)
StatsOverPresent(line, B, c) ==
    LET present == {i \in B : phase_with_metrics[i][c] # None}
        value == [i \in present |-> phase_with_metrics[i][c][1]]
    IN  IF present = {} THEN line = None
        ELSE /\ line # None
             /\ line[1].count = Cardinality(present)
             /\ line[1].sum = SumOver(present, value)
             /\ line[1].min \in {value[i] : i \in present}
             /\ line[1].max \in {value[i] : i \in present}
             /\ \A i \in present :
                   line[1].min <= value[i] /\ value[i] <= line[1].max

(* report is what print_metric_stats owes for the bucket B *)
BucketReport(report, B) ==
    IF B = {} THEN report = None
    ELSE /\ report # None
         /\ report[1].measurements = Cardinality(B)
         /\ StatsOverPresent(report[1].rssi, B, 2)
         /\ StatsOverPresent(report[1].rtt, B, 3)
         /\ StatsOverPresent(report[1].quality, B, 4)

(* the greatest |phase error| of the samples *)
MaxAbsError ==
    MaxOf({0} \cup {Abs(phase_with_metrics[i][1]) :
                       i \in 1..Len(phase_with_metrics)})

(* C18: at the end of a run of the detailed script, phase_with_metrics holds
   the rows that carry at least one metric; the GOOD (|e| <= 10), WARNING
   (10 < |e| <= 50) and POOR (|e| > 50) buckets hold each of them once; and
   in each bucket the statistics of a metric are taken over the samples
   where it is present, absent values being left out and not read as 0, with
   "No data" for a metric present in no sample of the bucket *)
C18_AbsentValuesExcluded ==
    (script = "detailed" /\ pc = "done") =>
        /\ phase_with_metrics =
              LET rows == SelectSeq(printed,
                              LAMBDA r : r.rssi # None \/ r.rtt # None
                                             \/ r.quality # None)
              IN  [k \in 1..Len(rows) |->
                      <<rows[k].phase_error_ms, rows[k].rssi, rows[k].rtt,
                        rows[k].quality>>]
        /\ summary # None
        /\ summary[1].ble = None <=> phase_with_metrics = <<>>
        /\ summary[1].ble # None =>
              LET ble == summary[1].ble[1]
              IN  /\ Len(ble.good_metrics) + Len(ble.warning_metrics)
                        + Len(ble.poor_metrics) = Len(phase_with_metrics)
                  /\ BucketReport(ble.good, BucketSamples(0, 10))
                  /\ BucketReport(ble.warning, BucketSamples(11, 50))
                  /\ BucketReport(ble.poor, BucketSamples(51, MaxAbsError))

(* C18 witness: a POOR bucket of two samples, both with RSSI and RTT and one
   of them without quality, whose quality statistics are those of the one
   sample that has it *)
C18_Witness ==
    /\ script = "detailed"
    /\ pc = "done"
    /\ summary # None
    /\ summary[1].ble # None
    /\ summary[1].ble[1].poor # None
    /\ summary[1].ble[1].poor[1].measurements = 2
    /\ summary[1].ble[1].poor[1].rssi # None
    /\ summary[1].ble[1].poor[1].rssi[1].count = 2
    /\ summary[1].ble[1].poor[1].quality # None
    /\ summary[1].ble[1].poor[1].quality[1].count = 1
    /\ summary[1].ble[1].poor[1].quality[1].min = 40

----------------------------------------------------------------------------
(* Properties of the metric dicts *)

(* the lines of the CLIENT log that carry the word w *)
ClientLinesWith(w) ==
    {i \in 1..Len(client_lines) :
        \E k \in 1..Len(client_lines[i]) : client_lines[i][k].s = w}

(* the dict d has a key for the tick count of every CLIENT line with the
   word w, and no other key *)
KeysFromClient(d, w) ==
    DOMAIN d = {StampOf(client_lines[i]) : i \in ClientLinesWith(w)}

(* the tick counts and the values of the SERVER capture's beacon *)
LeaderSample(d) == 950 \in DOMAIN d \/ \E t \in DOMAIN d : d[t] \in {-70, 500000, 90}

(* C19: in the detailed script the three metric dicts have the keys of the
   CLIENT log's metric lines alone, none of the SERVER log's samples is in
   them or in a row, and from the end of parsing on no step (loop iteration
   with its three lookups, statistics) changes the three dicts, server_acts
   or client_acts *)
C19_MetricsFromFollowerOnly ==
    /\ []((script = "detailed" /\ pc # "parse") =>
            /\ KeysFromClient(rssi_by_time, "rssi")
            /\ KeysFromClient(rtt_by_time, "rtt")
            /\ KeysFromClient(quality_by_time, "quality")
            /\ ~LeaderSample(rssi_by_time)
            /\ ~LeaderSample(rtt_by_time)
            /\ ~LeaderSample(quality_by_time)
            /\ \A i \in 1..Len(printed) :
                  /\ printed[i].rssi # Some(-70)
                  /\ printed[i].rtt # Some(500000)
                  /\ printed[i].quality # Some(90))
    /\ [][pc # "parse" =>
            UNCHANGED <<rssi_by_time, rtt_by_time, quality_by_time,
                        server_acts, client_acts>>]_vars

(* C19 witness: a finished run of the detailed script whose SERVER log has a
   beacon at 950 and whose only row carries the CLIENT beacon's samples of
   900 *)
C19_Witness ==
    /\ script = "detailed"
    /\ pc = "done"
    /\ \E i \in 1..Len(server_lines) :
          server_lines[i] = BeaconLine(950, 70, 500, 90)
    /\ rssi_by_time = (900 :> -95)
    /\ rtt_by_time = (900 :> 81452)
    /\ quality_by_time = (900 :> 40)
    /\ Len(printed) = 1
    /\ printed[1].rssi = Some(-95)
    /\ printed[1].rtt = Some(81452)
    /\ printed[1].quality = Some(40)

(* the RTT dict (in ms/1000) owed for a single report of the raw number v at
   the tick count 900: v microseconds above 1000, v milliseconds up to 1000 *)
RttDictOf(v) == (900 :> (IF v > 1000 THEN v ELSE 1000 * v))

(* C20: a raw RTT v above 1000 is stored as v / 1000 ms, and every v up to
   and including 1000 is stored as v ms, whichever of the two formats
   reports it; so a stored RTT is at most 1000 ms or comes from a raw number
   above 1000; the rows carry the stored value *)
C20_RttUnitThreshold ==
    (script = "detailed" /\ pc # "parse") =>
        \A v \in RttRaws :
            client_lines[2] \in {BeaconLine(900, 95, v, 40), RttLine(900, v)} =>
                /\ rtt_by_time = RttDictOf(v)
                /\ rtt_by_time[900] <= 1000 * 1000 \/ v > 1000
                /\ v = 1000 => rtt_by_time[900] = 1000 * 1000
                /\ v = 1001 => rtt_by_time[900] = 1001
                /\ \A i \in 1..Len(printed) :
                      printed[i].rtt = Some(rtt_by_time[900])

(* C20 witness: the raw number 1000 of an 'RTT measured' line has been
   stored as 1000 ms and carried to the row of the activation at 2000 *)
C20_Witness ==
    /\ script = "detailed"
    /\ pc = "done"
    /\ client_lines[2] = RttLine(900, 1000)
    /\ rtt_by_time = (900 :> 1000000)
    /\ Len(printed) = 1
    /\ printed[1].rtt = Some(1000000)

----------------------------------------------------------------------------
(* Two runs on the same inputs *)

IsPrefix(a, b) == Len(a) <= Len(b) /\ SubSeq(b, 1, Len(a)) = a

(* C21: a second run of the aligner on the same activation lists and metric
   dicts goes through the same rows (indices, phase error, status) as the
   first, and ends as the first did: same outcome, same indices, same
   phase errors, samples, status counts and statistics *)
C21_SecondRunSameOutput ==
    first_run # None =>
        LET first == first_run[1]
        IN  /\ IsPrefix(printed, first.printed)
            /\ IsPrefix(all_phase_errors, first.all_phase_errors)
            /\ IsPrefix(phase_with_metrics, first.phase_with_metrics)
            /\ pc \in {"done", "exit1", "raised"} => RunOutput = first

(* C21 witness: a second run of the detailed script ended, having paired at
   least two activations and looked up link metrics *)
C21_Witness ==
    /\ first_run # None
    /\ script = "detailed"
    /\ pc = "done"
    /\ Len(printed) >= 2
    /\ phase_with_metrics # <<>>
    /\ good_count + warning_count + overlap_count + drift_count >= 2

----------------------------------------------------------------------------
(* The round trip of parse_serial_log.py *)

(* the groups of a line that a reversible compression gives back: the clock
   time, the level, the tag and the message without colour codes *)
FieldsOf(l) ==
    [hh |-> l.hh, mm |-> l.mm, ss |-> l.ss, ms |-> l.ms, level |-> l.level,
     tag |-> l.tag, message |-> StripControl(l.message)]

(* C22: decompress_line, given the compressed line, the reversed dictionary
   and the base timestamp, returns a line with the timestamp, level, tag
   and message of the line that compress_line was given *)
C22_RoundTripRestoresLine ==
    pc = "validated" => FieldsOf(decompressed[1]) = FieldsOf(log_line[1])

----------------------------------------------------------------------------
(* The status counters *)

StatusTotal == good_count + warning_count + overlap_count + drift_count

PercentSum ==
    summary[1].good_pct + summary[1].warning_pct + summary[1].overlap_pct
        + summary[1].drift_pct

(* C23 as stated: the four percentages printed under "Status Breakdown",
   one decimal each, add up to 100.0 *)
C23_PrintedPercentagesSumTo100 ==
    (HalfPeriodScript /\ summary # None) => PercentSum = 1000

(* C23: in the phase and detailed scripts the four status counters add up
   to the number of phase errors recorded, which is the number of
   iterations made; an iteration adds one to exactly one counter and
   appends exactly one phase error; the exact percentages add up to 100,
   the printed ones (one decimal each) to within 0.2 of 100.0 *)
C23_CountersMatchIterations ==
    /\ [](HalfPeriodScript =>
            /\ StatusTotal = Len(all_phase_errors)
            /\ Len(all_phase_errors) = Len(printed)
            /\ summary # None =>
                  /\ summary[1].good_x100 + summary[1].warning_x100
                        + summary[1].overlap_x100 + summary[1].drift_x100
                        = 100 * summary[1].total
                  /\ PercentSum \in 998..1002)
    /\ [][(HalfPeriodScript /\ printed' # printed) =>
            /\ Len(printed') = Len(printed) + 1
            /\ Len(all_phase_errors') = Len(all_phase_errors) + 1
            /\ StatusTotal' = StatusTotal + 1
            /\ good_count' \in {good_count, good_count + 1}
            /\ warning_count' \in {warning_count, warning_count + 1}
            /\ overlap_count' \in {overlap_count, overlap_count + 1}
            /\ drift_count' \in {drift_count, drift_count + 1}]_vars

(* C23 witness: a finished run of three iterations with three different
   statuses, each printed as 33.3% *)
C23_Witness ==
    /\ HalfPeriodScript
    /\ summary # None
    /\ Len(printed) = 3
    /\ StatusTotal = 3
    /\ PercentSum = 999

----------------------------------------------------------------------------
(* The statistics are taken over at least one sample *)

(* C24: in the phase and detailed scripts, a run whose two activation lists
   are non-empty makes at least one iteration and records at least one
   phase error before the statistics are printed: the loop is never left
   with an empty all_phase_errors, mean, min, max and the percentages are
   computed over at least one sample, and no run ends in an exception *)
C24_StatisticsOverAtLeastOneSample ==
    (HalfPeriodScript /\ server_acts # <<>> /\ client_acts # <<>>) =>
        /\ pc # "raised"
        /\ pc # "exit1"
        /\ (pc = "loop" /\ ~InRange) =>
              Len(printed) >= 1 /\ Len(all_phase_errors) >= 1
        /\ pc = "done" =>
              /\ Len(printed) >= 1
              /\ summary # None
              /\ summary[1].total = Len(all_phase_errors)
              /\ summary[1].total >= 1

(* C24 witness: a finished run over one SERVER and one CLIENT activation,
   with statistics over its single sample *)
C24_Witness ==
    /\ HalfPeriodScript
    /\ Len(server_acts) = 1
    /\ Len(client_acts) = 1
    /\ pc = "done"
    /\ summary # None
    /\ summary[1].total = 1

----------------------------------------------------------------------------
(* The two kinds of flag of the outlier analysis *)

HighRoundTrip(m) == m[3] # None /\ m[3][1] > 100000
LowQuality(m) == m[4] # None /\ m[4][1] < 50

(* C25: over a non-empty POOR bucket, a POOR cycle counted as an outlier of
   RSSI, RTT or quality is not counted among those without link issue, so
   each outlier count and the no-issue count together stay within the
   bucket, and the "not caused by the link" flag is never raised together
   with a weak-RSSI, high-RTT or low-quality flag *)
C25_FlagsExcludeEachOther ==
    Analysed =>
        /\ Outliers.total >= 1
        /\ PoorWith(NoLinkIssue) \cap
              (PoorWith(WeakSignal) \cup PoorWith(HighRoundTrip)
                  \cup PoorWith(LowQuality)) = {}
        /\ Outliers.no_ble_issues + Outliers.rssi_outliers <= Outliers.total
        /\ Outliers.no_ble_issues + Outliers.rtt_outliers <= Outliers.total
        /\ Outliers.no_ble_issues + Outliers.qual_outliers <= Outliers.total
        /\ Outliers.not_ble_flag =>
              /\ ~Outliers.rssi_flag
              /\ ~Outliers.rtt_flag
              /\ ~Outliers.qual_flag

(* C25 witness: a finished run flagged as not caused by the link although
   some of its POOR cycles are outliers, none of the link flags raised *)
C25_Witness ==
    /\ Analysed
    /\ Outliers.not_ble_flag
    /\ Outliers.rssi_outliers + Outliers.rtt_outliers
          + Outliers.qual_outliers >= 1
    /\ ~Outliers.rssi_flag
    /\ ~Outliers.rtt_flag
    /\ ~Outliers.qual_flag

====
